---- MODULE Spec2Model ----
(***************************************************************************)
(* A model of the ideas/posts CRUD backend: two JSON documents on disk     *)
(* (data/ideas.json, data/posts.json), the storage classes that load the   *)
(* whole document, change it in memory and write it back, and the HTTP     *)
(* handlers that call them.                                                *)
(*                                                                         *)
(* Conventions.                                                            *)
(*   - A text (Python str) is a sequence of one-character strings.         *)
(*   - An Optional value is <<>> (None) or <<v>> (the value v).            *)
(*   - uuid4 ids are fresh numbers drawn from per-kind counters.           *)
(*   - A Like row's own id and created_at are written by toggle_like and   *)
(*     read by no code; the row is modelled by (user_id, idea_id).         *)
(*   - A file on disk is [st, doc]: st = "ok" when it holds the JSON       *)
(*     document doc, "missing" when it does not exist, "badjson" when its  *)
(*     text is not JSON (json.JSONDecodeError) and "badbytes" when its     *)
(*     bytes are not text in the locale's encoding (UnicodeDecodeError).   *)
(***************************************************************************)
EXTENDS Integers, Sequences, FiniteSets, TLC

VARIABLES
    ideasFile,   \* data/ideas.json
    postsFile,   \* data/posts.json
    nextIdea,    \* ideas created so far (uuid4 in create_idea)
    nextComment, \* idea comments created so far (uuid4 in add_comment)
    nextPost,    \* posts created so far
    nextPComment,\* post comments created so far
    now,         \* the clock read by datetime.utcnow()
    req,         \* the last HTTP request served
    resp,        \* its response
    before,      \* the two files as they were when that request arrived
    repeated,    \* whether the request served just before it was the same
                 \* request, answered 200 like this one
    deletedIdeas,\* the ids whose DELETE was answered 204
    procs        \* the requests in flight in the worker processes

vars == <<ideasFile, postsFile, nextIdea, nextComment, nextPost, nextPComment,
          now, req, resp, before, repeated, deletedIdeas, procs>>

(* ------------------------------- bounds ------------------------------- *)
\* Ideas, idea comments, posts and post comments created in one behaviour,
\* and the last instant of the clock.
MaxIdeas == 2
MaxComments == 2
MaxPosts == 2
MaxPComments == 1
MaxTime == 1

\* The users who like, and how many ideas (posts) a document holds at a time:
\* a create request is sent only while a slot is free.
Users == {"u1", "u2"}
LiveSlots == {1, 2}

(* ------------------------------ helpers ------------------------------- *)
None == <<>>
Some(v) == <<v>>

\* The empty dict {}.
EmptyDict == [k \in {} |-> 0]

\* next((i for i, x in enumerate(s) if x.get("id") == id), None), 1-based;
\* 0 stands for None.
IndexOfId(s, id) ==
    LET hits == {i \in 1..Len(s) : s[i].id = id}
    IN  IF hits = {} THEN 0 ELSE CHOOSE i \in hits : \A j \in hits : i <= j

\* next((i for i, like in enumerate(likes) if like.get("idea_id") == idea_id
\*       and like.get("user_id") == user_id), None)
IndexOfLike(likes, idea_id, user_id) ==
    LET hits == {i \in 1..Len(likes) :
                    likes[i].idea_id = idea_id /\ likes[i].user_id = user_id}
    IN  IF hits = {} THEN 0 ELSE CHOOSE i \in hits : \A j \in hits : i <= j

\* s.pop(i)
Pop(s, i) == [k \in 1..(Len(s) - 1) |-> IF k < i THEN s[k] ELSE s[k + 1]]

\* [c for c in s if c.get(key) == v], [c for c in s if c.get(key) != v]
Having(s, key, v) == SelectSeq(s, LAMBDA c : c[key] = v)
NotHaving(s, key, v) == SelectSeq(s, LAMBDA c : c[key] # v)

\* sum(1 for c in s if c.get(key) == v)
CountHaving(s, key, v) == Cardinality({i \in 1..Len(s) : s[i][key] = v})

Max(a, b) == IF a >= b THEN a ELSE b

Min(a, b) == IF a <= b THEN a ELSE b

\* s[skip:skip + limit]
Slice(s, skip, limit) == SubSeq(s, skip + 1, Min(skip + limit, Len(s)))

\* str.lower() on the letters of the texts in use.
LowerChar(c) ==
    LET uppers == <<"A", "B", "C", "D", "E", "G", "O", "T", "X">>
        lowers == <<"a", "b", "c", "d", "e", "g", "o", "t", "x">>
    IN  IF \E i \in 1..Len(uppers) : uppers[i] = c
        THEN lowers[CHOOSE i \in 1..Len(uppers) : uppers[i] = c]
        ELSE c
Lower(text) == [i \in 1..Len(text) |-> LowerChar(text[i])]

\* needle in hay, for two texts
Contains(hay, needle) ==
    \E i \in 0..(Len(hay) - Len(needle)) : SubSeq(hay, i + 1, i + Len(needle)) = needle

\* list.sort(key=..., reverse=True) with keys[i] the key of s[i]: descending
\* by key, elements of equal key in their original order.
SortedDesc(s, keys) ==
    LET n == Len(s)
        Before(j, i) == keys[j] > keys[i] \/ (keys[j] = keys[i] /\ j < i)
        Rank(i) == 1 + Cardinality({j \in 1..n : Before(j, i)})
    IN  [r \in 1..n |-> s[CHOOSE i \in 1..n : Rank(i) = r]]

\* The characters of the texts in the order of their code points, and the
\* comparison of two str: at the first position where they differ, or the
\* shorter one first when it is the beginning of the other.
StrLess(a, b) ==
    LET code_order == <<"A", "B", "E", "T", "a", "b", "c", "d", "e", "g", "o", "t",
                        "u", "x", "y">>
        ord(c) == CHOOSE k \in 1..Len(code_order) : code_order[k] = c
    IN  \E k \in 1..(Min(Len(a), Len(b)) + 1) :
            /\ \A j \in 1..(k - 1) : a[j] = b[j]
            /\ IF k > Len(a) THEN k <= Len(b)
               ELSE k <= Len(b) /\ ord(a[k]) < ord(b[k])

\* sorted(list(set(tags))): each str once, in ascending order.
SortedSet(tags) ==
    [r \in 1..Cardinality(tags) |->
        CHOOSE x \in tags : Cardinality({y \in tags : StrLess(y, x)}) = r - 1]

\* Clock ticks per calendar day: strftime("%B %d, %Y") keeps the day only.
TicksPerDay == 2
DisplayDate(t) == t \div TicksPerDay

(* ------------------------------ the files ----------------------------- *)
OkFile(d) == [st |-> "ok", doc |-> d]
MissingFile == [st |-> "missing"]
BadJsonFile == [st |-> "badjson"]
BadBytesFile == [st |-> "badbytes"]

EmptyIdeasDoc == [ideas |-> <<>>, comments |-> <<>>, likes |-> <<>>, tags |-> <<>>]
EmptyPostsDoc == [posts |-> <<>>, post_comments |-> <<>>, tags |-> <<>>]

\* What a storage method hands back: whether an exception left it, the file
\* as the method leaves it, and the returned value.
Returned(f, v) == [raised |-> FALSE, file |-> f, ret |-> v]
Raised(f) == [raised |-> TRUE, file |-> f, ret |-> None]

(* ------------------------- IdeasFileStorage --------------------------- *)
IdeasStorage_initialize_file(f) == OkFile(EmptyIdeasDoc)

\* json.load of the file: the document, or the except branch for
\* JSONDecodeError and FileNotFoundError; any other exception propagates.
IdeasStorage_load_data(f) ==
    IF f.st = "ok" THEN Returned(f, f.doc)
    ELSE IF f.st \in {"badjson", "missing"}
         THEN Returned(IdeasStorage_initialize_file(f), EmptyIdeasDoc)
         ELSE Raised(f)

IdeasStorage_save_data(f, data) == OkFile(data)

\* The userLiked loop of get_ideas and get_idea.
\* A faulty check that takes the Like of any user for the viewer's.
UserLiked_AnyUser(likes, idea_id, current_user_id) ==
    /\ current_user_id # None
    /\ current_user_id[1] # ""
    /\ \E i \in 1..Len(likes) : likes[i].idea_id = idea_id

UserLiked(likes, idea_id, current_user_id) ==
    /\ current_user_id # None
    /\ current_user_id[1] # ""
    /\ \E i \in 1..Len(likes) :
         likes[i].idea_id = idea_id /\ likes[i].user_id = current_user_id[1]

\* A storage method is load_data, then its in-memory part on the loaded
\* data (Ideas_<method>, Posts_<method>: [save, data, ret]), then save_data
\* when that part reached its save.
Kept(data, v) == [save |-> FALSE, data |-> data, ret |-> v]
Saved(data, v) == [save |-> TRUE, data |-> data, ret |-> v]

Ideas_get_idea(data, idea_id, current_user_id) ==
    LET k == IndexOfId(data.ideas, idea_id)
        idea_comments == Having(data.comments, "idea_id", idea_id)
    IN  IF k = 0 THEN Kept(data, None)
        ELSE Kept(data,
                 Some([userLiked |-> UserLiked(data.likes, idea_id, current_user_id),
                       comments_list |-> idea_comments,
                       comments |-> Len(idea_comments)] @@ data.ideas[k]))

\* A faulty create_idea that writes the new idea in place of the ideas
\* that were there.
Ideas_create_idea_Alone(data, idea_data0, uuid, t) ==
    LET d1 == IF "id" \in DOMAIN idea_data0 THEN idea_data0
              ELSE ("id" :> uuid) @@ idea_data0
        d2 == IF "date" \in DOMAIN d1 THEN d1 ELSE ("date" :> DisplayDate(t)) @@ d1
        d3 == IF "likes" \in DOMAIN d2 THEN d2 ELSE ("likes" :> 0) @@ d2
        idea_data == IF "tags" \in DOMAIN d3 THEN d3 ELSE ("tags" :> <<>>) @@ d3
    IN  Saved([data EXCEPT !.ideas = <<idea_data>>],
              [userLiked |-> FALSE, comments |-> 0] @@ idea_data)

Ideas_create_idea(data, idea_data0, uuid, t) ==
    LET d1 == IF "id" \in DOMAIN idea_data0 THEN idea_data0
              ELSE ("id" :> uuid) @@ idea_data0
        d2 == IF "date" \in DOMAIN d1 THEN d1 ELSE ("date" :> DisplayDate(t)) @@ d1
        d3 == IF "likes" \in DOMAIN d2 THEN d2 ELSE ("likes" :> 0) @@ d2
        idea_data == IF "tags" \in DOMAIN d3 THEN d3 ELSE ("tags" :> <<>>) @@ d3
    IN  Saved([data EXCEPT !.ideas = Append(data.ideas, idea_data)],
              [userLiked |-> FALSE, comments |-> 0] @@ idea_data)

Ideas_update_idea(data, idea_id, idea_data) ==
    LET idea_index == IndexOfId(data.ideas, idea_id)
    IN  IF idea_index = 0 THEN Kept(data, None) ELSE
        LET updated_idea == idea_data @@ data.ideas[idea_index]
        IN  Saved([data EXCEPT !.ideas = [data.ideas EXCEPT ![idea_index] = updated_idea]],
                  Some(("comments" :> CountHaving(data.comments, "idea_id", idea_id)) @@ updated_idea))

\* A faulty delete_idea that leaves the idea's likes behind.
Ideas_delete_idea_KeepLikes(data, idea_id) ==
    LET idea_index == IndexOfId(data.ideas, idea_id)
    IN  IF idea_index = 0 THEN Kept(data, FALSE) ELSE
        Saved([data EXCEPT !.ideas = Pop(data.ideas, idea_index),
                           !.comments = NotHaving(data.comments, "idea_id", idea_id)],
              TRUE)

Ideas_delete_idea(data, idea_id) ==
    LET idea_index == IndexOfId(data.ideas, idea_id)
    IN  IF idea_index = 0 THEN Kept(data, FALSE) ELSE
        Saved([data EXCEPT !.ideas = Pop(data.ideas, idea_index),
                           !.comments = NotHaving(data.comments, "idea_id", idea_id),
                           !.likes = NotHaving(data.likes, "idea_id", idea_id)],
              TRUE)

\* Faulty variants of toggle_like, to show which properties detect them:
\* one that never looks for an existing Like, one whose unlike leaves the
\* counter alone, one whose unlike drops every Like of the idea.
Ideas_toggle_like_AlwaysLike(data, idea_id, user_id) ==
    LET idea_index == IndexOfId(data.ideas, idea_id)
    IN  IF idea_index = 0 THEN Kept(data, None) ELSE
        LET idea0 == data.ideas[idea_index]
            idea == [idea0 EXCEPT !.likes = idea0.likes + 1]
        IN  Saved([data EXCEPT !.ideas = [data.ideas EXCEPT ![idea_index] = idea],
                               !.likes = Append(data.likes,
                                   [user_id |-> user_id, idea_id |-> idea_id])],
                  Some([userLiked |-> TRUE, comments |-> CountHaving(data.comments, "idea_id", idea_id)] @@ idea))

Ideas_toggle_like_NoDecrement(data, idea_id, user_id) ==
    LET idea_index == IndexOfId(data.ideas, idea_id)
    IN  IF idea_index = 0 THEN Kept(data, None) ELSE
        LET idea0 == data.ideas[idea_index]
            like_index == IndexOfLike(data.likes, idea_id, user_id)
            likes == IF like_index # 0 THEN Pop(data.likes, like_index)
                     ELSE Append(data.likes, [user_id |-> user_id, idea_id |-> idea_id])
            idea == IF like_index # 0 THEN idea0
                    ELSE [idea0 EXCEPT !.likes = idea0.likes + 1]
        IN  Saved([data EXCEPT !.ideas = [data.ideas EXCEPT ![idea_index] = idea],
                               !.likes = likes],
                  Some([userLiked |-> like_index = 0,
                        comments |-> CountHaving(data.comments, "idea_id", idea_id)] @@ idea))

Ideas_toggle_like_UnlikeAll(data, idea_id, user_id) ==
    LET idea_index == IndexOfId(data.ideas, idea_id)
    IN  IF idea_index = 0 THEN Kept(data, None) ELSE
        LET idea0 == data.ideas[idea_index]
            like_index == IndexOfLike(data.likes, idea_id, user_id)
            likes == IF like_index # 0 THEN NotHaving(data.likes, "idea_id", idea_id)
                     ELSE Append(data.likes, [user_id |-> user_id, idea_id |-> idea_id])
            idea == IF like_index # 0
                    THEN [idea0 EXCEPT !.likes = Max(0, idea0.likes - 1)]
                    ELSE [idea0 EXCEPT !.likes = idea0.likes + 1]
        IN  Saved([data EXCEPT !.ideas = [data.ideas EXCEPT ![idea_index] = idea],
                               !.likes = likes],
                  Some([userLiked |-> like_index = 0,
                        comments |-> CountHaving(data.comments, "idea_id", idea_id)] @@ idea))

\* A toggle that sets: a second call leaves the Like in place.
Ideas_toggle_like_SetOnly(data, idea_id, user_id) ==
    LET idea_index == IndexOfId(data.ideas, idea_id)
    IN  IF idea_index = 0 THEN Kept(data, None) ELSE
        LET idea0 == data.ideas[idea_index]
            like_index == IndexOfLike(data.likes, idea_id, user_id)
            likes == IF like_index # 0 THEN data.likes
                     ELSE Append(data.likes, [user_id |-> user_id, idea_id |-> idea_id])
            idea == IF like_index # 0 THEN idea0
                    ELSE [idea0 EXCEPT !.likes = idea0.likes + 1]
        IN  Saved([data EXCEPT !.ideas = [data.ideas EXCEPT ![idea_index] = idea],
                               !.likes = likes],
                  Some([userLiked |-> TRUE, comments |-> CountHaving(data.comments, "idea_id", idea_id)] @@ idea))

\* A faulty toggle_like that writes the new counter into every idea.
Ideas_toggle_like_AllCounters(data, idea_id, user_id) ==
    LET idea_index == IndexOfId(data.ideas, idea_id)
    IN  IF idea_index = 0 THEN Kept(data, None) ELSE
        LET idea0 == data.ideas[idea_index]
            like_index == IndexOfLike(data.likes, idea_id, user_id)
            likes == IF like_index # 0 THEN Pop(data.likes, like_index)
                     ELSE Append(data.likes, [user_id |-> user_id, idea_id |-> idea_id])
            idea == IF like_index # 0
                    THEN [idea0 EXCEPT !.likes = Max(0, idea0.likes - 1)]
                    ELSE [idea0 EXCEPT !.likes = idea0.likes + 1]
            user_liked == like_index = 0
        IN  Saved([data EXCEPT !.ideas = [k \in 1..Len(data.ideas) |->
                                             [data.ideas[k] EXCEPT !.likes = idea.likes]],
                               !.likes = likes],
                  Some([userLiked |-> user_liked,
                        comments |-> CountHaving(data.comments, "idea_id", idea_id)] @@ idea))

Ideas_toggle_like(data, idea_id, user_id) ==
    LET idea_index == IndexOfId(data.ideas, idea_id)
    IN  IF idea_index = 0 THEN Kept(data, None) ELSE
        LET idea0 == data.ideas[idea_index]
            like_index == IndexOfLike(data.likes, idea_id, user_id)
            likes == IF like_index # 0 THEN Pop(data.likes, like_index)
                     ELSE Append(data.likes, [user_id |-> user_id, idea_id |-> idea_id])
            idea == IF like_index # 0
                    THEN [idea0 EXCEPT !.likes = Max(0, idea0.likes - 1)]
                    ELSE [idea0 EXCEPT !.likes = idea0.likes + 1]
            user_liked == like_index = 0
        IN  Saved([data EXCEPT !.ideas = [data.ideas EXCEPT ![idea_index] = idea],
                               !.likes = likes],
                  Some([userLiked |-> user_liked,
                        comments |-> CountHaving(data.comments, "idea_id", idea_id)] @@ idea))

Ideas_add_comment(data, idea_id, comment_data0, uuid, t) ==
    IF IndexOfId(data.ideas, idea_id) = 0 THEN Kept(data, None) ELSE
    LET c1 == ("idea_id" :> idea_id) @@ comment_data0
        c2 == IF "id" \in DOMAIN c1 THEN c1 ELSE ("id" :> uuid) @@ c1
        comment_data == IF "date" \in DOMAIN c2 THEN c2
                        ELSE ("date" :> DisplayDate(t)) @@ c2
    IN  Saved([data EXCEPT !.comments = Append(data.comments, comment_data)],
              Some(comment_data))

\* A faulty get_ideas that cuts the page out of the filtered ideas before
\* it sorts them.
Ideas_get_ideas_PageFirst(data, skip, limit, search, tag, sort, current_user_id) ==
    LET Keep(idea) ==
            /\ (search # None /\ search[1] # <<>>) =>
                  \/ Contains(Lower(idea.title), Lower(search[1]))
                  \/ Contains(Lower(idea.description), Lower(search[1]))
            /\ (tag # None /\ tag[1] # <<>>) =>
                  \E k \in 1..Len(idea.tags) : idea.tags[k] = tag[1]
        kept == SelectSeq(data.ideas, Keep)
        filtered_ideas ==
            Slice([i \in 1..Len(kept) |->
                    [userLiked |-> UserLiked(data.likes, kept[i].id, current_user_id),
                     comments |-> CountHaving(data.comments, "idea_id", kept[i].id)]
                        @@ kept[i]], skip, limit)
        keys == [i \in 1..Len(filtered_ideas) |->
                    IF sort = "latest" THEN filtered_ideas[i].date
                    ELSE filtered_ideas[i].likes]
    IN  Kept(data, SortedDesc(filtered_ideas, keys))

\* The date texts are the ones strftime("%B %d, %Y") wrote, which strptime
\* reads back: the key of "latest" is the day.
Ideas_get_ideas(data, skip, limit, search, tag, sort, current_user_id) ==
    LET Keep(idea) ==
            /\ (search # None /\ search[1] # <<>>) =>
                  \/ Contains(Lower(idea.title), Lower(search[1]))
                  \/ Contains(Lower(idea.description), Lower(search[1]))
            /\ (tag # None /\ tag[1] # <<>>) =>
                  \E k \in 1..Len(idea.tags) : idea.tags[k] = tag[1]
        kept == SelectSeq(data.ideas, Keep)
        filtered_ideas ==
            [i \in 1..Len(kept) |->
                [userLiked |-> UserLiked(data.likes, kept[i].id, current_user_id),
                 comments |-> CountHaving(data.comments, "idea_id", kept[i].id)]
                    @@ kept[i]]
        keys == [i \in 1..Len(filtered_ideas) |->
                    IF sort = "latest" THEN filtered_ideas[i].date
                    ELSE filtered_ideas[i].likes]
    IN  Kept(data, Slice(SortedDesc(filtered_ideas, keys), skip, limit))

\* A faulty get_all_tags that returns the collected tags as they come.
Ideas_get_all_tags_Raw(data) ==
    LET Collect[k \in 0..Len(data.ideas)] ==
            IF k = 0 THEN <<>> ELSE Collect[k - 1] \o data.ideas[k].tags
    IN  Kept(data, Collect[Len(data.ideas)])

Ideas_get_all_tags(data) ==
    LET Collect[k \in 0..Len(data.ideas)] ==
            IF k = 0 THEN <<>> ELSE Collect[k - 1] \o data.ideas[k].tags
        all_tags == Collect[Len(data.ideas)]
    IN  Kept(data, SortedSet({all_tags[k] : k \in 1..Len(all_tags)}))

\* A storage method is load_data, its in-memory part b on the loaded data,
\* and save_data when that part reached its save.
IdeasDone(f, b) ==
    [raised |-> FALSE,
     file |-> IF b.save THEN IdeasStorage_save_data(f, b.data) ELSE f,
     ret |-> b.ret]

IdeasStorage_get_idea(f, idea_id, current_user_id) ==
    LET l == IdeasStorage_load_data(f) IN
    IF l.raised THEN Raised(l.file)
    ELSE IdeasDone(l.file, Ideas_get_idea(l.ret, idea_id, current_user_id))

IdeasStorage_create_idea(f, idea_data, uuid, t) ==
    LET l == IdeasStorage_load_data(f) IN
    IF l.raised THEN Raised(l.file)
    ELSE IdeasDone(l.file, Ideas_create_idea(l.ret, idea_data, uuid, t))

IdeasStorage_update_idea(f, idea_id, idea_data) ==
    LET l == IdeasStorage_load_data(f) IN
    IF l.raised THEN Raised(l.file)
    ELSE IdeasDone(l.file, Ideas_update_idea(l.ret, idea_id, idea_data))

IdeasStorage_delete_idea(f, idea_id) ==
    LET l == IdeasStorage_load_data(f) IN
    IF l.raised THEN Raised(l.file)
    ELSE IdeasDone(l.file, Ideas_delete_idea(l.ret, idea_id))

IdeasStorage_toggle_like(f, idea_id, user_id) ==
    LET l == IdeasStorage_load_data(f) IN
    IF l.raised THEN Raised(l.file)
    ELSE IdeasDone(l.file, Ideas_toggle_like(l.ret, idea_id, user_id))

IdeasStorage_add_comment(f, idea_id, comment_data, uuid, t) ==
    LET l == IdeasStorage_load_data(f) IN
    IF l.raised THEN Raised(l.file)
    ELSE IdeasDone(l.file, Ideas_add_comment(l.ret, idea_id, comment_data, uuid, t))

IdeasStorage_get_ideas(f, skip, limit, search, tag, sort, current_user_id) ==
    LET l == IdeasStorage_load_data(f) IN
    IF l.raised THEN Raised(l.file)
    ELSE IdeasDone(l.file, Ideas_get_ideas(l.ret, skip, limit, search, tag, sort,
                                           current_user_id))

IdeasStorage_get_all_tags(f) ==
    LET l == IdeasStorage_load_data(f) IN
    IF l.raised THEN Raised(l.file)
    ELSE IdeasDone(l.file, Ideas_get_all_tags(l.ret))

(* --------------------------- the ideas router ------------------------- *)
\* What a handler hands back: the file as it leaves it and the HTTP response.
Response(f, status, body) == [file |-> f, status |-> status, body |-> body]
NotFound(f) == Response(f, 404, None)
\* An exception no handler catches: the framework answers 500.
ServerError(f) == Response(f, 500, None)

IdeasRouter_get_idea(f, idea_id) ==
    LET r == IdeasStorage_get_idea(f, idea_id, None) IN
    IF r.raised THEN ServerError(r.file)
    ELSE IF r.ret = None THEN NotFound(r.file)
    ELSE Response(r.file, 200, r.ret)

\* skip >= 0, 1 <= limit <= 100 and sort in latest|popular were validated
\* by the Query parameters; no current_user_id is passed on.
IdeasRouter_get_ideas(f, skip, limit, search, tag, sort) ==
    LET r == IdeasStorage_get_ideas(f, skip, limit, search, tag, sort, None) IN
    IF r.raised THEN ServerError(r.file) ELSE Response(r.file, 200, Some(r.ret))

IdeasRouter_get_all_tags(f) ==
    LET r == IdeasStorage_get_all_tags(f) IN
    IF r.raised THEN ServerError(r.file) ELSE Response(r.file, 200, Some(r.ret))

\* idea: the validated IdeaCreate (title, description, author, tags).
NewIdea(idea, uuid, t) ==
    [id |-> uuid, title |-> idea.title, description |-> idea.description,
     author |-> idea.author, date |-> DisplayDate(t), likes |-> 0,
     tags |-> idea.tags, userLiked |-> FALSE]

IdeasRouter_create_idea(f, idea, uuid, t) ==
    LET new_idea == NewIdea(idea, uuid, t)
        r == IdeasStorage_create_idea(f, new_idea, uuid, t)
    IN  IF r.raised THEN ServerError(r.file) ELSE Response(r.file, 201, Some(r.ret))

\* A faulty reading of the request that takes an empty string or an empty
\* list for an absent field.
UpdatesOf_NonEmpty(idea_update) ==
    LET u1 == IF idea_update.title # None /\ idea_update.title[1] # <<>>
              THEN ("title" :> idea_update.title[1]) ELSE EmptyDict
        u2 == IF idea_update.description # None /\ idea_update.description[1] # <<>>
              THEN ("description" :> idea_update.description[1]) @@ u1 ELSE u1
    IN  IF idea_update.tags # None /\ idea_update.tags[1] # <<>>
        THEN ("tags" :> idea_update.tags[1]) @@ u2 ELSE u2

\* idea_update: the validated IdeaUpdate, each field an Optional; the
\* updates dict holds the fields that are not None.
UpdatesOf(idea_update) ==
    LET u1 == IF idea_update.title # None
              THEN ("title" :> idea_update.title[1]) ELSE EmptyDict
        u2 == IF idea_update.description # None
              THEN ("description" :> idea_update.description[1]) @@ u1 ELSE u1
    IN  IF idea_update.tags # None
        THEN ("tags" :> idea_update.tags[1]) @@ u2 ELSE u2

IdeasRouter_update_idea(f, idea_id, idea_update) ==
    LET g == IdeasStorage_get_idea(f, idea_id, None) IN
    IF g.raised THEN ServerError(g.file)
    ELSE IF g.ret = None THEN NotFound(g.file) ELSE
    LET updates == UpdatesOf(idea_update)
        r == IdeasStorage_update_idea(g.file, idea_id, updates)
    IN  IF r.raised THEN ServerError(r.file)
        ELSE IF r.ret = None THEN NotFound(r.file)
        ELSE Response(r.file, 200, r.ret)

IdeasRouter_delete_idea(f, idea_id) ==
    LET g == IdeasStorage_get_idea(f, idea_id, None) IN
    IF g.raised THEN ServerError(g.file)
    ELSE IF g.ret = None THEN NotFound(g.file) ELSE
    LET r == IdeasStorage_delete_idea(g.file, idea_id)
    IN  IF r.raised THEN ServerError(r.file)
        ELSE IF ~r.ret THEN NotFound(r.file)
        ELSE Response(r.file, 204, None)

IdeasRouter_toggle_like(f, idea_id, user_id) ==
    LET g == IdeasStorage_get_idea(f, idea_id, None) IN
    IF g.raised THEN ServerError(g.file)
    ELSE IF g.ret = None THEN NotFound(g.file) ELSE
    LET r == IdeasStorage_toggle_like(g.file, idea_id, user_id)
    IN  IF r.raised THEN ServerError(r.file)
        ELSE IF r.ret = None THEN NotFound(r.file)
        ELSE Response(r.file, 200, r.ret)

\* comment: the validated CommentCreate (content, author).
IdeasRouter_add_comment(f, idea_id, comment, uuid, t) ==
    LET g == IdeasStorage_get_idea(f, idea_id, None) IN
    IF g.raised THEN ServerError(g.file)
    ELSE IF g.ret = None THEN NotFound(g.file) ELSE
    LET new_comment == [id |-> uuid, content |-> comment.content,
                        author |-> comment.author, idea_id |-> idea_id,
                        date |-> DisplayDate(t)]
        r == IdeasStorage_add_comment(g.file, idea_id, new_comment, uuid, t)
    IN  IF r.raised THEN ServerError(r.file)
        ELSE IF r.ret = None THEN NotFound(r.file)
        ELSE Response(r.file, 201, r.ret)

(* ------------------------- PostsFileStorage --------------------------- *)
\* datetime.isoformat(): the text of an instant; fromisoformat reads it back.
IsoFormat(t) == <<"T", t>>
FromIsoFormat(s) == s[2]

PostsStorage_initialize_file(f) == OkFile(EmptyPostsDoc)

PostsStorage_load_data(f) ==
    IF f.st = "ok" THEN Returned(f, f.doc)
    ELSE IF f.st \in {"badjson", "missing"}
         THEN Returned(PostsStorage_initialize_file(f), EmptyPostsDoc)
         ELSE Raised(f)

PostsStorage_save_data(f, data) == OkFile(data)

\* The sort key's argument: x.get("published_at", x.get("created_at", ...)),
\* an Optional text; only a missing key falls back to created_at.
DefaultIso == IsoFormat(-1)
PostSortText(x) ==
    IF "published_at" \in DOMAIN x THEN x.published_at
    ELSE IF "created_at" \in DOMAIN x THEN Some(x.created_at)
    ELSE Some(DefaultIso)

\* A faulty get_posts that ignores published_only.
Posts_get_posts_Everything(data, skip, limit, search, tag, published_only) ==
    LET Keep(post) ==
            /\ (search # None /\ search[1] # <<>>) =>
                  \/ Contains(Lower(post.title), Lower(search[1]))
                  \/ Contains(Lower(post.content), Lower(search[1]))
                  \/ (post.excerpt # None
                        /\ Contains(Lower(post.excerpt[1]), Lower(search[1])))
            /\ (tag # None /\ tag[1] # <<>>) =>
                  \E k \in 1..Len(post.tags) : post.tags[k] = tag[1]
        kept == SelectSeq(data.posts, Keep)
        filtered_posts ==
            [i \in 1..Len(kept) |->
                ("comments_count" :> CountHaving(data.post_comments, "post_id", kept[i].id))
                    @@ kept[i]]
    IN  IF \E i \in 1..Len(filtered_posts) : PostSortText(filtered_posts[i]) = None
        THEN [threw |-> TRUE, ret |-> <<>>]
        ELSE LET keys == [i \in 1..Len(filtered_posts) |->
                             FromIsoFormat(PostSortText(filtered_posts[i])[1])]
             IN  [threw |-> FALSE,
                  ret |-> Slice(SortedDesc(filtered_posts, keys), skip, limit)]

\* threw: datetime.fromisoformat(None) raises TypeError out of the sort.
Posts_get_posts(data, skip, limit, search, tag, published_only) ==
    LET Keep(post) ==
            /\ ~(published_only /\ ~post.is_published)
            /\ (search # None /\ search[1] # <<>>) =>
                  \/ Contains(Lower(post.title), Lower(search[1]))
                  \/ Contains(Lower(post.content), Lower(search[1]))
                  \/ (post.excerpt # None
                        /\ Contains(Lower(post.excerpt[1]), Lower(search[1])))
            /\ (tag # None /\ tag[1] # <<>>) =>
                  \E k \in 1..Len(post.tags) : post.tags[k] = tag[1]
        kept == SelectSeq(data.posts, Keep)
        filtered_posts ==
            [i \in 1..Len(kept) |->
                ("comments_count" :> CountHaving(data.post_comments, "post_id", kept[i].id))
                    @@ kept[i]]
    IN  IF \E i \in 1..Len(filtered_posts) : PostSortText(filtered_posts[i]) = None
        THEN [threw |-> TRUE, ret |-> <<>>]
        ELSE LET keys == [i \in 1..Len(filtered_posts) |->
                             FromIsoFormat(PostSortText(filtered_posts[i])[1])]
             IN  [threw |-> FALSE,
                  ret |-> Slice(SortedDesc(filtered_posts, keys), skip, limit)]

Posts_get_post(data, post_id) ==
    LET k == IndexOfId(data.posts, post_id)
        comments == Having(data.post_comments, "post_id", post_id)
    IN  IF k = 0 THEN Kept(data, None)
        ELSE Kept(data, Some([comments |-> comments,
                              comments_count |-> Len(comments)] @@ data.posts[k]))

Posts_create_post(data, post_data) ==
    Saved([data EXCEPT !.posts = Append(data.posts, post_data)],
          ("comments_count" :> 0) @@ post_data)

Posts_update_post(data, post_id, post_data) ==
    LET post_index == IndexOfId(data.posts, post_id)
    IN  IF post_index = 0 THEN Kept(data, None) ELSE
        LET updated == post_data @@ data.posts[post_index]
        IN  Saved([data EXCEPT !.posts = [data.posts EXCEPT ![post_index] = updated]],
                  Some(("comments_count" :>
                            CountHaving(data.post_comments, "post_id", post_id)) @@ updated))

\* A faulty delete_post that leaves the post's comments behind.
Posts_delete_post_KeepComments(data, post_id) ==
    LET post_index == IndexOfId(data.posts, post_id)
    IN  IF post_index = 0 THEN Kept(data, FALSE) ELSE
        Saved([data EXCEPT !.posts = Pop(data.posts, post_index)], TRUE)

Posts_delete_post(data, post_id) ==
    LET post_index == IndexOfId(data.posts, post_id)
    IN  IF post_index = 0 THEN Kept(data, FALSE) ELSE
        Saved([data EXCEPT !.posts = Pop(data.posts, post_index),
                           !.post_comments = NotHaving(data.post_comments, "post_id", post_id)],
              TRUE)

Posts_add_comment(data, post_id, comment_data) ==
    IF IndexOfId(data.posts, post_id) = 0 THEN Kept(data, None) ELSE
    Saved([data EXCEPT !.post_comments = Append(data.post_comments, comment_data)],
          Some(comment_data))

PostsDone(f, b) ==
    [raised |-> FALSE,
     file |-> IF b.save THEN PostsStorage_save_data(f, b.data) ELSE f,
     ret |-> b.ret]

PostsStorage_get_posts(f, skip, limit, search, tag, published_only) ==
    LET l == PostsStorage_load_data(f) IN
    IF l.raised THEN Raised(l.file) ELSE
    LET b == Posts_get_posts(l.ret, skip, limit, search, tag, published_only)
    IN  IF b.threw THEN Raised(l.file) ELSE Returned(l.file, b.ret)

\* A faulty get_all_tags that writes the tags it collected into the
\* document and saves it.
Posts_get_all_tags_Rewrite(data) ==
    LET Collect[k \in 0..Len(data.posts)] ==
            IF k = 0 THEN <<>> ELSE Collect[k - 1] \o data.posts[k].tags
        all_tags == Collect[Len(data.posts)]
        unique_tags == SortedSet({all_tags[k] : k \in 1..Len(all_tags)})
    IN  Saved([data EXCEPT !.tags = unique_tags], unique_tags)

\* get_all_tags: the tags of all posts, each once, sorted.
Posts_get_all_tags(data) ==
    LET Collect[k \in 0..Len(data.posts)] ==
            IF k = 0 THEN <<>> ELSE Collect[k - 1] \o data.posts[k].tags
        all_tags == Collect[Len(data.posts)]
    IN  Kept(data, SortedSet({all_tags[k] : k \in 1..Len(all_tags)}))

PostsStorage_get_all_tags(f) ==
    LET l == PostsStorage_load_data(f) IN
    IF l.raised THEN Raised(l.file)
    ELSE PostsDone(l.file, Posts_get_all_tags(l.ret))

PostsStorage_get_post(f, post_id) ==
    LET l == PostsStorage_load_data(f) IN
    IF l.raised THEN Raised(l.file)
    ELSE PostsDone(l.file, Posts_get_post(l.ret, post_id))

PostsStorage_create_post(f, post_data) ==
    LET l == PostsStorage_load_data(f) IN
    IF l.raised THEN Raised(l.file)
    ELSE PostsDone(l.file, Posts_create_post(l.ret, post_data))

PostsStorage_update_post(f, post_id, post_data) ==
    LET l == PostsStorage_load_data(f) IN
    IF l.raised THEN Raised(l.file)
    ELSE PostsDone(l.file, Posts_update_post(l.ret, post_id, post_data))

PostsStorage_delete_post(f, post_id) ==
    LET l == PostsStorage_load_data(f) IN
    IF l.raised THEN Raised(l.file)
    ELSE PostsDone(l.file, Posts_delete_post(l.ret, post_id))

PostsStorage_add_comment(f, post_id, comment_data) ==
    LET l == PostsStorage_load_data(f) IN
    IF l.raised THEN Raised(l.file)
    ELSE PostsDone(l.file, Posts_add_comment(l.ret, post_id, comment_data))

(* --------------------------- the posts router ------------------------- *)
ExcerptLen == 150

\* A faulty excerpt that is cut at 150 characters without the "..." marker.
MakeExcerpt_NoMarker(content) ==
    IF Len(content) > ExcerptLen
    THEN SubSeq(content, 1, ExcerptLen)
    ELSE content

\* content[:150], with "..." appended when the content is longer.
MakeExcerpt(content) ==
    IF Len(content) > ExcerptLen
    THEN SubSeq(content, 1, ExcerptLen) \o <<".", ".", ".">>
    ELSE content

\* Python truthiness of an Optional[str]: None and "" are false.
Truthy(o) == o # None /\ o[1] # <<>>

\* skip >= 0 and 1 <= limit <= 100 were validated by the Query parameters.
PostsRouter_get_posts(f, skip, limit, search, tag, published_only) ==
    LET r == PostsStorage_get_posts(f, skip, limit, search, tag, published_only)
    IN  IF r.raised THEN ServerError(r.file) ELSE Response(r.file, 200, Some(r.ret))

PostsRouter_get_all_tags(f) ==
    LET r == PostsStorage_get_all_tags(f) IN
    IF r.raised THEN ServerError(r.file) ELSE Response(r.file, 200, Some(r.ret))

\* A faulty get_post that returns whatever post the store holds.
PostsRouter_get_post_AnyPost(f, post_id) ==
    LET r == PostsStorage_get_post(f, post_id) IN
    IF r.raised THEN ServerError(r.file)
    ELSE IF r.ret = None THEN NotFound(r.file)
    ELSE Response(r.file, 200, r.ret)

PostsRouter_get_post(f, post_id) ==
    LET r == PostsStorage_get_post(f, post_id) IN
    IF r.raised THEN ServerError(r.file)
    ELSE IF r.ret = None THEN NotFound(r.file)
    ELSE IF ~r.ret[1].is_published THEN NotFound(r.file)
    ELSE Response(r.file, 200, r.ret)

\* post_create: the validated PostCreate (title, content, excerpt, author,
\* tags, is_published).
PostsRouter_create_post(f, post_create, uuid, t) ==
    LET now_ == IsoFormat(t)
        excerpt == IF ~Truthy(post_create.excerpt) /\ post_create.content # <<>>
                   THEN Some(MakeExcerpt(post_create.content))
                   ELSE post_create.excerpt
        new_post == [id |-> uuid, title |-> post_create.title,
                     content |-> post_create.content, excerpt |-> excerpt,
                     author |-> post_create.author, created_at |-> now_,
                     updated_at |-> now_,
                     published_at |-> IF post_create.is_published THEN Some(now_) ELSE None,
                     is_published |-> post_create.is_published,
                     tags |-> post_create.tags]
        r == PostsStorage_create_post(f, new_post)
    IN  IF r.raised THEN ServerError(r.file) ELSE Response(r.file, 201, Some(r.ret))

\* A faulty update_post that stamps published_at whenever the update asks
\* for is_published = true, published already or not.
PostsRouter_update_post_Restamp(f, post_id, post_update, t) ==
    LET g == PostsStorage_get_post(f, post_id) IN
    IF g.raised THEN ServerError(g.file)
    ELSE IF g.ret = None THEN NotFound(g.file) ELSE
    LET u1 == IF post_update.title # None
              THEN ("title" :> post_update.title[1]) ELSE EmptyDict
        u2 == IF post_update.content # None
              THEN ("content" :> post_update.content[1]) @@ u1 ELSE u1
        u3 == IF post_update.content # None /\ post_update.excerpt = None
              THEN ("excerpt" :> Some(MakeExcerpt(post_update.content[1]))) @@ u2 ELSE u2
        u4 == IF post_update.excerpt # None
              THEN ("excerpt" :> post_update.excerpt) @@ u3 ELSE u3
        u5 == IF post_update.tags # None
              THEN ("tags" :> post_update.tags[1]) @@ u4 ELSE u4
        u6 == IF post_update.is_published # None /\ post_update.is_published[1]
              THEN ("published_at" :> Some(IsoFormat(t))) @@ u5 ELSE u5
        u7 == IF post_update.is_published # None
              THEN ("is_published" :> post_update.is_published[1]) @@ u6 ELSE u6
        updates == ("updated_at" :> IsoFormat(t)) @@ u7
        r == PostsStorage_update_post(g.file, post_id, updates)
    IN  IF r.raised THEN ServerError(r.file)
        ELSE IF r.ret = None THEN NotFound(r.file)
        ELSE Response(r.file, 200, r.ret)

\* A faulty preparation of the updates that sets is_published and never
\* stamps published_at.
PostUpdatesOf_NoStamp(post, post_update, t) ==
    LET u1 == IF post_update.title # None
              THEN ("title" :> post_update.title[1]) ELSE EmptyDict
        u2 == IF post_update.content # None
              THEN ("content" :> post_update.content[1]) @@ u1 ELSE u1
        u3 == IF post_update.content # None /\ post_update.excerpt = None
              THEN ("excerpt" :> Some(MakeExcerpt(post_update.content[1]))) @@ u2 ELSE u2
        u4 == IF post_update.excerpt # None
              THEN ("excerpt" :> post_update.excerpt) @@ u3 ELSE u3
        u5 == IF post_update.tags # None
              THEN ("tags" :> post_update.tags[1]) @@ u4 ELSE u4
        u7 == IF post_update.is_published # None
              THEN ("is_published" :> post_update.is_published[1]) @@ u5 ELSE u5
    IN  ("updated_at" :> IsoFormat(t)) @@ u7

\* post_update: the validated PostUpdate, each field an Optional.
\* The updates dict update_post prepares from the post it found.
PostUpdatesOf(post, post_update, t) ==
    LET u1 == IF post_update.title # None
              THEN ("title" :> post_update.title[1]) ELSE EmptyDict
        u2 == IF post_update.content # None
              THEN ("content" :> post_update.content[1]) @@ u1 ELSE u1
        u3 == IF post_update.content # None /\ post_update.excerpt = None
              THEN ("excerpt" :> Some(MakeExcerpt(post_update.content[1]))) @@ u2 ELSE u2
        u4 == IF post_update.excerpt # None
              THEN ("excerpt" :> post_update.excerpt) @@ u3 ELSE u3
        u5 == IF post_update.tags # None
              THEN ("tags" :> post_update.tags[1]) @@ u4 ELSE u4
        u6 == IF post_update.is_published # None /\ post_update.is_published[1]
                 /\ ~post.is_published
              THEN ("published_at" :> Some(IsoFormat(t))) @@ u5 ELSE u5
        u7 == IF post_update.is_published # None
              THEN ("is_published" :> post_update.is_published[1]) @@ u6 ELSE u6
    IN  ("updated_at" :> IsoFormat(t)) @@ u7

\* A faulty update_post that, like get_post, answers not-found for a post
\* that is not published.
PostsRouter_update_post_PublishedOnly(f, post_id, post_update, t) ==
    LET g == PostsStorage_get_post(f, post_id) IN
    IF g.raised THEN ServerError(g.file)
    ELSE IF g.ret = None THEN NotFound(g.file)
    ELSE IF ~g.ret[1].is_published THEN NotFound(g.file) ELSE
    LET updates == PostUpdatesOf(g.ret[1], post_update, t)
        r == PostsStorage_update_post(g.file, post_id, updates)
    IN  IF r.raised THEN ServerError(r.file)
        ELSE IF r.ret = None THEN NotFound(r.file)
        ELSE Response(r.file, 200, r.ret)

PostsRouter_update_post(f, post_id, post_update, t) ==
    LET g == PostsStorage_get_post(f, post_id) IN
    IF g.raised THEN ServerError(g.file)
    ELSE IF g.ret = None THEN NotFound(g.file) ELSE
    LET updates == PostUpdatesOf(g.ret[1], post_update, t)
        r == PostsStorage_update_post(g.file, post_id, updates)
    IN  IF r.raised THEN ServerError(r.file)
        ELSE IF r.ret = None THEN NotFound(r.file)
        ELSE Response(r.file, 200, r.ret)

PostsRouter_delete_post(f, post_id) ==
    LET g == PostsStorage_get_post(f, post_id) IN
    IF g.raised THEN ServerError(g.file)
    ELSE IF g.ret = None THEN NotFound(g.file) ELSE
    LET r == PostsStorage_delete_post(g.file, post_id)
    IN  IF r.raised THEN ServerError(r.file)
        ELSE IF ~r.ret THEN NotFound(r.file)
        ELSE Response(r.file, 204, None)

\* A faulty add_comment that looks at is_published only after the comment
\* was stored.
PostsRouter_add_comment_CheckAfter(f, post_id, comment_create, uuid, t) ==
    LET g == PostsStorage_get_post(f, post_id) IN
    IF g.raised THEN ServerError(g.file)
    ELSE IF g.ret = None THEN NotFound(g.file) ELSE
    LET new_comment == [id |-> uuid, content |-> comment_create.content,
                        author |-> comment_create.author, post_id |-> post_id,
                        created_at |-> IsoFormat(t)]
        r == PostsStorage_add_comment(g.file, post_id, new_comment)
    IN  IF r.raised THEN ServerError(r.file)
        ELSE IF r.ret = None \/ ~g.ret[1].is_published THEN NotFound(r.file)
        ELSE Response(r.file, 201, r.ret)

\* A faulty add_comment that only asks for the post to exist.
PostsRouter_add_comment_AnyPost(f, post_id, comment_create, uuid, t) ==
    LET g == PostsStorage_get_post(f, post_id) IN
    IF g.raised THEN ServerError(g.file)
    ELSE IF g.ret = None THEN NotFound(g.file) ELSE
    LET new_comment == [id |-> uuid, content |-> comment_create.content,
                        author |-> comment_create.author, post_id |-> post_id,
                        created_at |-> IsoFormat(t)]
        r == PostsStorage_add_comment(g.file, post_id, new_comment)
    IN  IF r.raised THEN ServerError(r.file)
        ELSE IF r.ret = None THEN NotFound(r.file)
        ELSE Response(r.file, 201, r.ret)

\* comment_create: the validated PostCommentCreate (content, author).
PostsRouter_add_comment(f, post_id, comment_create, uuid, t) ==
    LET g == PostsStorage_get_post(f, post_id) IN
    IF g.raised THEN ServerError(g.file)
    ELSE IF g.ret = None THEN NotFound(g.file)
    ELSE IF ~g.ret[1].is_published THEN NotFound(g.file) ELSE
    LET new_comment == [id |-> uuid, content |-> comment_create.content,
                        author |-> comment_create.author, post_id |-> post_id,
                        created_at |-> IsoFormat(t)]
        r == PostsStorage_add_comment(g.file, post_id, new_comment)
    IN  IF r.raised THEN ServerError(r.file)
        ELSE IF r.ret = None THEN NotFound(r.file)
        ELSE Response(r.file, 201, r.ret)

(* ------------------------- the state machine -------------------------- *)
\* After construction and startup both files hold the empty document.
NoRequest == [op |-> "none"]
NoResponse == [status |-> 0, body |-> None]

InitServer ==
    /\ ideasFile = IdeasStorage_initialize_file(MissingFile)
    /\ postsFile = PostsStorage_initialize_file(MissingFile)
    /\ nextIdea = 0
    /\ nextComment = 0
    /\ nextPost = 0
    /\ nextPComment = 0
    /\ now = 0
    /\ req = NoRequest
    /\ resp = NoResponse
    /\ before = [ideas |-> ideasFile, posts |-> postsFile]
    /\ repeated = FALSE
    /\ deletedIdeas = {}

Init == InitServer /\ procs = <<>>

\* One request served from arrival to response by a single worker.
Serve(rq, r) ==
    /\ req' = rq
    /\ resp' = [status |-> r.status, body |-> r.body]
    /\ before' = [ideas |-> ideasFile, posts |-> postsFile]
    /\ repeated' = (rq = req /\ resp.status = 200 /\ r.status = 200)

IdeasOnly == UNCHANGED <<postsFile, nextPost, nextPComment, now, procs>>
PostsOnly == UNCHANGED <<ideasFile, nextIdea, nextComment, deletedIdeas, procs>>

IdeaIds == 1..MaxIdeas
PostIds == 1..MaxPosts

LiveIdeas == IF ideasFile.st = "ok" THEN Len(ideasFile.doc.ideas) ELSE 0
LivePosts == IF postsFile.st = "ok" THEN Len(postsFile.doc.posts) ELSE 0

GetIdea(idea_id) ==
    LET r == IdeasRouter_get_idea(ideasFile, idea_id) IN
    /\ ideasFile' = r.file
    /\ Serve([op |-> "get_idea", idea_id |-> idea_id], r)
    /\ UNCHANGED <<nextIdea, nextComment>>
    /\ UNCHANGED deletedIdeas
    /\ IdeasOnly

CreateIdea(idea) ==
    /\ nextIdea < MaxIdeas
    /\ LiveIdeas < Cardinality(LiveSlots)
    /\ LET r == IdeasRouter_create_idea(ideasFile, idea, nextIdea + 1, now) IN
       /\ ideasFile' = r.file
       /\ Serve([op |-> "create_idea", idea |-> idea], r)
    /\ nextIdea' = nextIdea + 1
    /\ UNCHANGED nextComment
    /\ UNCHANGED deletedIdeas
    /\ IdeasOnly

UpdateIdea(idea_id, idea_update) ==
    LET r == IdeasRouter_update_idea(ideasFile, idea_id, idea_update) IN
    /\ ideasFile' = r.file
    /\ Serve([op |-> "update_idea", idea_id |-> idea_id, idea_update |-> idea_update], r)
    /\ UNCHANGED <<nextIdea, nextComment>>
    /\ UNCHANGED deletedIdeas
    /\ IdeasOnly

DeleteIdea(idea_id) ==
    LET r == IdeasRouter_delete_idea(ideasFile, idea_id) IN
    /\ ideasFile' = r.file
    /\ Serve([op |-> "delete_idea", idea_id |-> idea_id], r)
    /\ UNCHANGED <<nextIdea, nextComment>>
    /\ deletedIdeas' = IF r.status = 204 THEN deletedIdeas \cup {idea_id}
                                          ELSE deletedIdeas
    /\ IdeasOnly

ToggleLike(idea_id, user_id) ==
    LET r == IdeasRouter_toggle_like(ideasFile, idea_id, user_id) IN
    /\ ideasFile' = r.file
    /\ Serve([op |-> "toggle_like", idea_id |-> idea_id, user_id |-> user_id], r)
    /\ UNCHANGED <<nextIdea, nextComment>>
    /\ UNCHANGED deletedIdeas
    /\ IdeasOnly

\* The comment's uuid is drawn once the idea was found.
AddIdeaComment(idea_id, comment) ==
    LET r == IdeasRouter_add_comment(ideasFile, idea_id, comment, nextComment + 1, now) IN
    /\ r.status = 404 \/ nextComment < MaxComments
    /\ ideasFile' = r.file
    /\ Serve([op |-> "add_idea_comment", idea_id |-> idea_id, comment |-> comment], r)
    /\ nextComment' = IF r.status = 404 THEN nextComment ELSE nextComment + 1
    /\ UNCHANGED nextIdea
    /\ UNCHANGED deletedIdeas
    /\ IdeasOnly

GetPost(post_id) ==
    LET r == PostsRouter_get_post(postsFile, post_id) IN
    /\ postsFile' = r.file
    /\ Serve([op |-> "get_post", post_id |-> post_id], r)
    /\ UNCHANGED <<nextPost, nextPComment, now>>
    /\ PostsOnly

CreatePost(post_create) ==
    /\ nextPost < MaxPosts
    /\ LivePosts < Cardinality(LiveSlots)
    /\ LET r == PostsRouter_create_post(postsFile, post_create, nextPost + 1, now) IN
       /\ postsFile' = r.file
       /\ Serve([op |-> "create_post", post_create |-> post_create], r)
    /\ nextPost' = nextPost + 1
    /\ UNCHANGED <<nextPComment, now>>
    /\ PostsOnly

UpdatePost(post_id, post_update) ==
    LET r == PostsRouter_update_post(postsFile, post_id, post_update, now) IN
    /\ postsFile' = r.file
    /\ Serve([op |-> "update_post", post_id |-> post_id, post_update |-> post_update], r)
    /\ UNCHANGED <<nextPost, nextPComment, now>>
    /\ PostsOnly

DeletePost(post_id) ==
    LET r == PostsRouter_delete_post(postsFile, post_id) IN
    /\ postsFile' = r.file
    /\ Serve([op |-> "delete_post", post_id |-> post_id], r)
    /\ UNCHANGED <<nextPost, nextPComment, now>>
    /\ PostsOnly

AddPostComment(post_id, comment_create) ==
    LET r == PostsRouter_add_comment(postsFile, post_id, comment_create,
                                     nextPComment + 1, now) IN
    /\ r.status = 404 \/ nextPComment < MaxPComments
    /\ postsFile' = r.file
    /\ Serve([op |-> "add_post_comment", post_id |-> post_id,
              comment_create |-> comment_create], r)
    /\ nextPComment' = IF r.status = 404 THEN nextPComment ELSE nextPComment + 1
    /\ UNCHANGED <<nextPost, now>>
    /\ PostsOnly

\* Time passes between two requests.
Tick ==
    /\ now < MaxTime
    /\ now' = now + 1
    /\ UNCHANGED <<ideasFile, postsFile, nextIdea, nextComment, nextPost,
                   nextPComment, req, resp, before, repeated, deletedIdeas, procs>>

(* ------------------- the requests that are sent ----------------------- *)
IdeaCreates ==
    {[title |-> <<"a">>, description |-> <<"d">>, author |-> <<"A">>, tags |-> << <<"g", "o">> >>]}
IdeaUpdates ==
    {[title |-> Some(<<"b">>), description |-> None, tags |-> None]}
CommentCreates == {[content |-> <<"c">>, author |-> <<"A">>]}

PostCreates ==
    {[title |-> <<"t">>, content |-> <<"c">>, excerpt |-> None, author |-> <<"A">>,
      tags |-> <<>>, is_published |-> b] : b \in BOOLEAN}
PostUpdates ==
    {[title |-> None, content |-> None, excerpt |-> None, tags |-> None,
      is_published |-> p] : p \in {Some(TRUE), Some(FALSE)}}

IdeasNext ==
    \/ \E i \in IdeaIds : GetIdea(i)
    \/ \E c \in IdeaCreates : CreateIdea(c)
    \/ \E i \in IdeaIds, u \in IdeaUpdates : UpdateIdea(i, u)
    \/ \E i \in IdeaIds : DeleteIdea(i)
    \/ \E i \in IdeaIds, u \in Users : ToggleLike(i, u)
    \/ \E i \in IdeaIds, c \in CommentCreates : AddIdeaComment(i, c)

PostsRequests ==
    \/ \E i \in PostIds : GetPost(i)
    \/ \E c \in PostCreates : CreatePost(c)
    \/ \E i \in PostIds, u \in PostUpdates : UpdatePost(i, u)
    \/ \E i \in PostIds : DeletePost(i)
    \/ \E i \in PostIds, c \in CommentCreates : AddPostComment(i, c)

PostsNext == PostsRequests \/ Tick

\* The ideas service alone, the posts service alone.
SpecIdeas == Init /\ [][IdeasNext]_vars
SpecPosts == Init /\ [][PostsNext]_vars

\* Both services. The two documents are separate files behind separate
\* storage objects, so the search follows one of them at a time: requests
\* that change a document are sent while the other one is still empty.
\* The requests arrive at one instant: the clock only shows in the posts'
\* timestamps, which SpecPosts covers.
IdeasUntouched == ideasFile = OkFile(EmptyIdeasDoc) /\ nextIdea = 0
PostsUntouched == postsFile = OkFile(EmptyPostsDoc) /\ nextPost = 0 /\ now = 0

Next ==
    \/ PostsUntouched /\ IdeasNext
    \/ IdeasUntouched /\ PostsRequests

Spec == Init /\ [][Next]_vars

(* -------------------------- editing the ideas ------------------------- *)
\* Updates that send nothing, the description alone, a title that is the
\* empty string, a tag list that is empty, or both; the user who likes.
IdeaEdits ==
    {[title |-> None, description |-> None, tags |-> None],
     [title |-> None, description |-> Some(<<"e">>), tags |-> None],
     [title |-> Some(<<>>), description |-> None, tags |-> None],
     [title |-> None, description |-> None, tags |-> Some(<<>>)],
     [title |-> Some(<<>>), description |-> None, tags |-> Some(<<>>)]}
Liker == CHOOSE u \in Users : TRUE

IdeaEditsNext ==
    \/ \E c \in IdeaCreates : CreateIdea(c)
    \/ \E i \in IdeaIds, u \in IdeaEdits : UpdateIdea(i, u)
    \/ \E i \in IdeaIds : ToggleLike(i, Liker)
    \/ \E i \in IdeaIds, c \in CommentCreates : AddIdeaComment(i, c)

SpecIdeaEdits == Init /\ [][IdeaEditsNext]_vars

(* --------------------------- the idea tags ---------------------------- *)
ListTags ==
    LET r == IdeasRouter_get_all_tags(ideasFile) IN
    /\ ideasFile' = r.file
    /\ Serve([op |-> "get_all_tags"], r)
    /\ UNCHANGED <<nextIdea, nextComment>>
    /\ UNCHANGED deletedIdeas
    /\ IdeasOnly

\* Ideas are created with the tag "B" and one more tag; an update replaces
\* the tags by none or by "ab", "a", "ab".
TagCreates ==
    {[title |-> <<"a">>, description |-> <<"d">>, author |-> <<"A">>, tags |-> tags] :
        tags \in {<< <<"a", "b">>, <<"B">> >>, << <<"B">>, <<"a">> >>}}
TagEdits ==
    {[title |-> None, description |-> None, tags |-> Some(tags)] :
        tags \in {<<>>, << <<"a", "b">>, <<"a">>, <<"a", "b">> >>}}

TagsNext ==
    \/ \E c \in TagCreates : CreateIdea(c)
    \/ \E i \in IdeaIds, u \in TagEdits : UpdateIdea(i, u)
    \/ \E i \in IdeaIds : DeleteIdea(i)
    \/ ListTags

SpecTags == Init /\ [][TagsNext]_vars

(* -------------------------- listing the ideas ------------------------- *)
ListIdeas(q) ==
    LET r == IdeasRouter_get_ideas(ideasFile, q.skip, q.limit, q.search, q.tag, q.sort) IN
    /\ ideasFile' = r.file
    /\ Serve([op |-> "get_ideas", q |-> q], r)
    /\ UNCHANGED <<nextIdea, nextComment>>
    /\ UNCHANGED deletedIdeas
    /\ IdeasOnly

\* The lists asked for: all ideas or a page of one idea, all ideas, the
\* ideas with "e" in their text or the ideas with the tag "a", by date or by
\* likes.
IdeaQueries ==
    {[skip |-> page[1], limit |-> page[2], search |-> filter[1], tag |-> filter[2],
      sort |-> sort] :
        page \in {<<0, 100>>, <<0, 1>>, <<1, 1>>},
        filter \in {<<None, None>>, <<Some(<<"E">>), None>>, <<None, Some(<<"a">>)>>},
        sort \in {"latest", "popular"}}

IdeaListsNext ==
    \/ \E c \in TagCreates : CreateIdea(c)
    \/ \E i \in IdeaIds, u \in IdeaEdits : u.title = None /\ u.tags = None /\ UpdateIdea(i, u)
    \/ \E i \in IdeaIds, u \in Users : ToggleLike(i, u)
    \/ \E q \in IdeaQueries : ListIdeas(q)

SpecIdeaLists == Init /\ [][IdeaListsNext]_vars

(* ------------------------- listing the posts -------------------------- *)
ListPosts(q) ==
    LET r == PostsRouter_get_posts(postsFile, q.skip, q.limit, q.search, q.tag,
                                   q.published_only) IN
    /\ postsFile' = r.file
    /\ Serve([op |-> "get_posts", q |-> q], r)
    /\ UNCHANGED <<nextPost, nextPComment, now>>
    /\ PostsOnly

\* Posts with and without a tag, published or not; the lists asked for.
TaggedPostCreates ==
    {[title |-> c[1], content |-> <<"c">>, excerpt |-> None, author |-> <<"A">>,
      tags |-> c[2], is_published |-> b] :
        c \in {<< <<"t">>, <<>> >>, << <<"x">>, << <<"g", "o">> >> >>}, b \in BOOLEAN}
PostQueries ==
    {[skip |-> page[1], limit |-> page[2], search |-> search, tag |-> tag,
      published_only |-> published_only] :
        page \in {<<0, 10>>, <<1, 1>>}, search \in {None, Some(<<"T">>)},
        tag \in {None, Some(<<"g", "o">>)}, published_only \in BOOLEAN}

PostListsNext ==
    \/ \E c \in TaggedPostCreates : CreatePost(c)
    \/ \E i \in PostIds, u \in PostUpdates : UpdatePost(i, u)
    \/ Tick
    \/ \E q \in PostQueries : ListPosts(q)

SpecPostLists == Init /\ [][PostListsNext]_vars

(* ------------------------- editing the posts -------------------------- *)
\* Updates that unpublish, and updates that publish and send nothing else,
\* the title and the tags, or the content without an excerpt.
PostEdits ==
    {[title |-> None, content |-> None, excerpt |-> None, tags |-> None,
      is_published |-> Some(FALSE)]}
    \cup
    {[title |-> part[1], content |-> part[2], excerpt |-> None, tags |-> part[3],
      is_published |-> Some(TRUE)] :
        part \in {<<None, None, None>>,
                  <<Some(<<"u">>), None, Some(<< <<"g", "o">> >>)>>,
                  <<None, Some(<<"d">>), None>>}}

PostEditsNext ==
    \/ \E c \in PostCreates : CreatePost(c)
    \/ \E i \in PostIds, u \in PostEdits : UpdatePost(i, u)
    \/ Tick

SpecPostEdits == Init /\ [][PostEditsNext]_vars

(* ---------------------------- the excerpts ---------------------------- *)
\* Contents that are empty, short, exactly 150 characters long and one
\* character longer; the last character of the longest is its only "y".
LongText(n) == [k \in 1..n |-> IF k <= ExcerptLen THEN "x" ELSE "y"]
Contents == {<<>>, <<"c">>, LongText(ExcerptLen), LongText(ExcerptLen + 1)}

ExcerptCreates ==
    {[title |-> <<"t">>, content |-> content, excerpt |-> excerpt, author |-> <<"A">>,
      tags |-> <<>>, is_published |-> TRUE] :
        content \in Contents, excerpt \in {None, Some(<<>>), Some(<<"e">>)}}
ExcerptEdits ==
    {[title |-> None, content |-> content, excerpt |-> excerpt, tags |-> None,
      is_published |-> None] :
        content \in {None} \cup {Some(c) : c \in Contents},
        excerpt \in {None, Some(<<"e">>)}}

ExcerptsNext ==
    \/ \E c \in ExcerptCreates : CreatePost(c)
    \/ \E i \in PostIds, u \in ExcerptEdits : UpdatePost(i, u)

SpecExcerpts == Init /\ [][ExcerptsNext]_vars

(* ------------------ the derived fields of an idea --------------------- *)
\* Ideas that are commented, liked (also by the user whose id is the empty
\* string) and edited, and read one by one and as a list.
DerivedNext ==
    \/ \E c \in IdeaCreates : CreateIdea(c)
    \/ \E i \in IdeaIds, u \in IdeaUpdates : UpdateIdea(i, u)
    \/ \E i \in IdeaIds, u \in {Liker, ""} : ToggleLike(i, u)
    \/ \E i \in IdeaIds, c \in CommentCreates : AddIdeaComment(i, c)
    \/ \E i \in IdeaIds : GetIdea(i)
    \/ \E q \in IdeaQueries :
          /\ q.skip = 0 /\ q.limit = 100 /\ q.search = None /\ q.tag = None
          /\ q.sort = "popular" /\ ListIdeas(q)

SpecDerived == Init /\ [][DerivedNext]_vars

(* ---------------------- reading both services ------------------------- *)
ListPostTags ==
    LET r == PostsRouter_get_all_tags(postsFile) IN
    /\ postsFile' = r.file
    /\ Serve([op |-> "get_all_post_tags"], r)
    /\ UNCHANGED <<nextPost, nextPComment, now>>
    /\ PostsOnly

\* Both services in use, each with its requests that write and all its
\* requests that read.
ReadsNext ==
    \/ \E c \in IdeaCreates : CreateIdea(c)
    \/ \E i \in IdeaIds : ToggleLike(i, Liker)
    \/ \E i \in IdeaIds : DeleteIdea(i)
    \/ \E i \in IdeaIds : GetIdea(i)
    \/ \E q \in IdeaQueries :
          q.skip = 0 /\ q.limit = 1 /\ q.sort = "popular" /\ ListIdeas(q)
    \/ ListTags
    \/ \E c \in TaggedPostCreates : CreatePost(c)
    \/ \E i \in PostIds, u \in PostUpdates : UpdatePost(i, u)
    \/ \E i \in PostIds : DeletePost(i)
    \/ \E i \in PostIds : GetPost(i)
    \/ \E q \in PostQueries : q.skip = 0 /\ q.tag = None /\ ListPosts(q)
    \/ ListPostTags

SpecReads == Init /\ [][ReadsNext]_vars

(* --------------------------- the start-up ----------------------------- *)
\* IdeasFileStorage(file_path) and PostsFileStorage(file_path): the
\* constructor writes the empty document when the file does not exist.
IdeasStorage_init(f) == IF f.st = "missing" THEN IdeasStorage_initialize_file(f) ELSE f
PostsStorage_init(f) == IF f.st = "missing" THEN PostsStorage_initialize_file(f) ELSE f

\* startup_event: a storage object is constructed on each data file and
\* its initialize_file() is called.
startup_event(fi, fp) ==
    [ideas |-> IdeasStorage_initialize_file(IdeasStorage_init(fi)),
     posts |-> PostsStorage_initialize_file(PostsStorage_init(fp))]

\* The server process is started again on the data files it left.
Startup ==
    LET r == startup_event(ideasFile, postsFile) IN
    /\ ideasFile' = r.ideas
    /\ postsFile' = r.posts
    /\ req' = [op |-> "startup"]
    /\ resp' = NoResponse
    /\ before' = [ideas |-> ideasFile, posts |-> postsFile]
    /\ repeated' = FALSE
    /\ UNCHANGED <<nextIdea, nextComment, nextPost, nextPComment, now, deletedIdeas, procs>>

RestartNext ==
    \/ \E c \in PostCreates : CreatePost(c)
    \/ \E i \in PostIds : GetPost(i)
    \/ \E c \in IdeaCreates : CreateIdea(c)
    \/ \E i \in IdeaIds : GetIdea(i)
    \/ Startup

SpecRestart == Init /\ [][RestartNext]_vars

(* ---------------------- a damaged data file --------------------------- *)
\* Between two requests something outside the server removes a data file
\* or leaves it with content that is not the JSON document: truncated or
\* otherwise malformed JSON text, or bytes that are not UTF-8 text.
DamagedFiles == {MissingFile, BadJsonFile, BadBytesFile}

\* The state after it is not the state after a request.
NotServed ==
    /\ req' = NoRequest
    /\ resp' = NoResponse
    /\ repeated' = FALSE
    /\ UNCHANGED before

DamageIdeas(f) ==
    /\ ideasFile.st = "ok"
    /\ ideasFile' = f
    /\ NotServed
    /\ UNCHANGED <<postsFile, nextIdea, nextComment, nextPost, nextPComment, now,
                   deletedIdeas, procs>>

DamagePosts(f) ==
    /\ postsFile.st = "ok"
    /\ postsFile' = f
    /\ NotServed
    /\ UNCHANGED <<ideasFile, nextIdea, nextComment, nextPost, nextPComment, now,
                   deletedIdeas, procs>>

FilesNext ==
    \/ PostsUntouched /\ IdeasNext
    \/ PostsUntouched /\ \E f \in DamagedFiles : DamageIdeas(f)
    \/ IdeasUntouched /\ PostsNext
    \/ IdeasUntouched /\ \E f \in DamagedFiles : DamagePosts(f)

SpecFiles == Init /\ [][FilesNext]_vars

(* ------------- several worker processes on one data file -------------- *)
\* A handler is a coroutine without an await, so one process serves its
\* requests one after the other. Started with several worker processes,
\* every process has its own storage object on the same data/ideas.json,
\* and nothing orders the load_data and save_data calls of two processes.
\* Each worker serves one request, in the steps that touch the file: the
\* router's existence check, the storage method's load_data, its save_data.
Workers == {"w1", "w2"}

IdleWorker ==
    [pc |-> "idle", rq |-> NoRequest, uuid |-> 0, t |-> 0, data |-> EmptyIdeasDoc,
     loadedAt |-> 0, savedAt |-> 0, resp |-> NoResponse]

\* procs.of[w] is worker w; procs.clock counts the loads and saves so far,
\* and loadedAt, savedAt record when a worker did its own.
InitWorkers == InitServer /\ procs = [of |-> [w \in Workers |-> IdleWorker], clock |-> 0]

AllIdle == \A w \in Workers : procs.of[w].pc = "idle"

WorkerRequests ==
    {[op |-> "create_idea", idea |-> c] : c \in IdeaCreates}
    \cup {[op |-> "update_idea", idea_id |-> i, idea_update |-> u] :
            i \in IdeaIds, u \in IdeaUpdates}
    \cup {[op |-> "delete_idea", idea_id |-> i] : i \in IdeaIds}
    \cup {[op |-> "toggle_like", idea_id |-> i, user_id |-> u] :
            i \in IdeaIds, u \in Users}
    \cup {[op |-> "add_idea_comment", idea_id |-> i, comment |-> c] :
            i \in IdeaIds, c \in CommentCreates}

WorkerVars == <<postsFile, nextPost, nextPComment, now,
                req, resp, before, repeated, deletedIdeas>>

\* The handler starts: create_idea draws its uuid and goes to the storage
\* call, the other handlers first check that the idea exists; the uuid of
\* a comment is drawn here too.
Arrive(w, rq) ==
    /\ procs.of[w].pc = "idle"
    /\ rq.op = "create_idea" => nextIdea < MaxIdeas
    /\ rq.op = "add_idea_comment" => nextComment < MaxComments
    /\ nextIdea' = IF rq.op = "create_idea" THEN nextIdea + 1 ELSE nextIdea
    /\ nextComment' = IF rq.op = "add_idea_comment" THEN nextComment + 1 ELSE nextComment
    /\ procs' = [procs EXCEPT !.of[w] =
                    [@ EXCEPT !.pc = IF rq.op = "create_idea" THEN "load" ELSE "check",
                              !.rq = rq,
                              !.uuid = IF rq.op = "add_idea_comment" THEN nextComment'
                                       ELSE nextIdea',
                              !.t = now]]
    /\ UNCHANGED ideasFile
    /\ UNCHANGED WorkerVars

\* idea = storage.get_idea(idea_id); if not idea: raise HTTPException(404)
Check(w) ==
    /\ procs.of[w].pc = "check"
    /\ LET g == IdeasStorage_get_idea(ideasFile, procs.of[w].rq.idea_id, None) IN
       /\ ideasFile' = g.file
       /\ procs' = [procs EXCEPT !.of[w] =
            IF g.raised THEN [@ EXCEPT !.pc = "done", !.resp = [status |-> 500, body |-> None]]
            ELSE IF g.ret = None
                 THEN [@ EXCEPT !.pc = "done", !.resp = [status |-> 404, body |-> None]]
                 ELSE [@ EXCEPT !.pc = "load"]]
    /\ UNCHANGED <<nextIdea, nextComment>>
    /\ UNCHANGED WorkerVars

\* data = self.load_data(), first statement of the storage method.
Load(w) ==
    /\ procs.of[w].pc = "load"
    /\ LET l == IdeasStorage_load_data(ideasFile) IN
       /\ ideasFile' = l.file
       /\ procs' = [procs EXCEPT
            !.clock = @ + 1,
            !.of[w] = IF l.raised
                      THEN [@ EXCEPT !.pc = "done", !.resp = [status |-> 500, body |-> None]]
                      ELSE [@ EXCEPT !.pc = "save", !.data = l.ret,
                                     !.loadedAt = procs.clock + 1]]
    /\ UNCHANGED <<nextIdea, nextComment>>
    /\ UNCHANGED WorkerVars

\* The in-memory part of the storage method on the data the worker loaded;
\* with a lock around the method it would be the file's data instead.
WorkerBody_Locked(w) ==
    LET p == procs.of[w] IN
    CASE p.rq.op = "create_idea" ->
           Ideas_create_idea(ideasFile.doc, NewIdea(p.rq.idea, p.uuid, p.t), p.uuid, p.t)
      [] p.rq.op = "update_idea" ->
           Ideas_update_idea(ideasFile.doc, p.rq.idea_id, UpdatesOf(p.rq.idea_update))
      [] p.rq.op = "delete_idea" -> Ideas_delete_idea(ideasFile.doc, p.rq.idea_id)
      [] p.rq.op = "toggle_like" ->
           Ideas_toggle_like(ideasFile.doc, p.rq.idea_id, p.rq.user_id)
      [] p.rq.op = "add_idea_comment" ->
           Ideas_add_comment(ideasFile.doc, p.rq.idea_id,
                             [id |-> p.uuid, content |-> p.rq.comment.content,
                              author |-> p.rq.comment.author, idea_id |-> p.rq.idea_id,
                              date |-> DisplayDate(p.t)], p.uuid, p.t)

\* A faulty save that writes the likes and comments the worker computed
\* next to the ideas that are in the file by then.
WorkerBody_Partial(w) ==
    LET p == procs.of[w]
        b == CASE p.rq.op = "create_idea" ->
                    Ideas_create_idea(p.data, NewIdea(p.rq.idea, p.uuid, p.t), p.uuid, p.t)
               [] p.rq.op = "update_idea" ->
                    Ideas_update_idea(p.data, p.rq.idea_id, UpdatesOf(p.rq.idea_update))
               [] p.rq.op = "delete_idea" -> Ideas_delete_idea(p.data, p.rq.idea_id)
               [] p.rq.op = "toggle_like" ->
                    Ideas_toggle_like(p.data, p.rq.idea_id, p.rq.user_id)
               [] p.rq.op = "add_idea_comment" ->
                    Ideas_add_comment(p.data, p.rq.idea_id,
                                      [id |-> p.uuid, content |-> p.rq.comment.content,
                                       author |-> p.rq.comment.author,
                                       idea_id |-> p.rq.idea_id,
                                       date |-> DisplayDate(p.t)], p.uuid, p.t)
    IN  IF p.rq.op \in {"toggle_like", "add_idea_comment"}
        THEN [b EXCEPT !.data = [ideasFile.doc EXCEPT !.likes = b.data.likes,
                                                      !.comments = b.data.comments]]
        ELSE b

WorkerBody(w) ==
    LET p == procs.of[w] IN
    CASE p.rq.op = "create_idea" ->
           Ideas_create_idea(p.data, NewIdea(p.rq.idea, p.uuid, p.t), p.uuid, p.t)
      [] p.rq.op = "update_idea" ->
           Ideas_update_idea(p.data, p.rq.idea_id, UpdatesOf(p.rq.idea_update))
      [] p.rq.op = "delete_idea" -> Ideas_delete_idea(p.data, p.rq.idea_id)
      [] p.rq.op = "toggle_like" ->
           Ideas_toggle_like(p.data, p.rq.idea_id, p.rq.user_id)
      [] p.rq.op = "add_idea_comment" ->
           Ideas_add_comment(p.data, p.rq.idea_id,
                             [id |-> p.uuid, content |-> p.rq.comment.content,
                              author |-> p.rq.comment.author, idea_id |-> p.rq.idea_id,
                              date |-> DisplayDate(p.t)], p.uuid, p.t)

\* What the handler answers with the storage method's return value.
WorkerAnswer(rq, ret) ==
    CASE rq.op = "create_idea" -> [status |-> 201, body |-> Some(ret)]
      [] rq.op = "delete_idea" ->
           IF ret THEN [status |-> 204, body |-> None] ELSE [status |-> 404, body |-> None]
      [] rq.op = "add_idea_comment" ->
           IF ret = None THEN [status |-> 404, body |-> None]
           ELSE [status |-> 201, body |-> ret]
      [] OTHER ->
           IF ret = None THEN [status |-> 404, body |-> None]
           ELSE [status |-> 200, body |-> ret]

\* The rest of the storage method, up to self.save_data(data), and the
\* handler's response.
Save(w) ==
    /\ procs.of[w].pc = "save"
    /\ LET b == WorkerBody(w) IN
       /\ ideasFile' = IF b.save THEN IdeasStorage_save_data(ideasFile, b.data)
                                 ELSE ideasFile
       /\ procs' = [procs EXCEPT
            !.clock = IF b.save THEN @ + 1 ELSE @,
            !.of[w] = [@ EXCEPT !.pc = "done",
                                !.savedAt = IF b.save THEN procs.clock + 1 ELSE 0,
                                !.resp = WorkerAnswer(procs.of[w].rq, b.ret)]]
    /\ UNCHANGED <<nextIdea, nextComment>>
    /\ UNCHANGED WorkerVars

\* Requests served one at a time fill the document before the workers start.
WorkersNext ==
    \/ AllIdle /\ \E c \in IdeaCreates : CreateIdea(c)
    \/ AllIdle /\ \E i \in IdeaIds, u \in Users : ToggleLike(i, u)
    \/ \E w \in Workers, rq \in WorkerRequests : Arrive(w, rq)
    \/ \E w \in Workers : Check(w)
    \/ \E w \in Workers : Load(w)
    \/ \E w \in Workers : Save(w)

SpecWorkers == InitWorkers /\ [][WorkersNext]_vars

(* -------------- worker processes on the posts data file --------------- *)
\* update_post and add_comment read the file twice: storage.get_post for
\* the handler's decision, then the storage method, which loads, changes
\* and saves. A worker's data holds what the handler prepared in between:
\* the updates dict or the new comment.
PostWorkerRequests ==
    {[op |-> "update_post", post_id |-> i, post_update |-> u] :
        i \in PostIds, u \in PostUpdates}
    \cup {[op |-> "add_post_comment", post_id |-> i, comment_create |-> c] :
            i \in PostIds, c \in CommentCreates}

PostArrive(w, rq) ==
    /\ procs.of[w].pc = "idle"
    /\ procs' = [procs EXCEPT !.of[w] = [@ EXCEPT !.pc = "check", !.rq = rq]]
    /\ UNCHANGED <<ideasFile, postsFile, nextIdea, nextComment, nextPost, nextPComment,
                   now, req, resp, before, repeated, deletedIdeas>>

\* post = storage.get_post(post_id), the 404 answers, and what the handler
\* prepares for the storage method at the instant it runs.
PostCheck(w) ==
    /\ procs.of[w].pc = "check"
    /\ LET p == procs.of[w]
           g == PostsStorage_get_post(postsFile, p.rq.post_id)
           refused == \/ g.ret = None
                      \/ p.rq.op = "add_post_comment" /\ ~g.ret[1].is_published
       IN  /\ postsFile' = g.file
           /\ ~g.raised /\ ~refused /\ p.rq.op = "add_post_comment"
                => nextPComment < MaxPComments
           /\ nextPComment' = IF ~g.raised /\ ~refused /\ p.rq.op = "add_post_comment"
                              THEN nextPComment + 1 ELSE nextPComment
           /\ procs' = [procs EXCEPT !.of[w] =
                IF g.raised THEN [@ EXCEPT !.pc = "done", !.resp = [status |-> 500, body |-> None]]
                ELSE IF refused
                     THEN [@ EXCEPT !.pc = "done", !.resp = [status |-> 404, body |-> None]]
                ELSE IF p.rq.op = "update_post"
                     THEN [@ EXCEPT !.pc = "save", !.t = now,
                                    !.data = PostUpdatesOf(g.ret[1], p.rq.post_update, now)]
                     ELSE [@ EXCEPT !.pc = "save", !.t = now, !.uuid = nextPComment',
                                    !.data = [id |-> nextPComment',
                                              content |-> p.rq.comment_create.content,
                                              author |-> p.rq.comment_create.author,
                                              post_id |-> p.rq.post_id,
                                              created_at |-> IsoFormat(now)]]]
    /\ UNCHANGED <<ideasFile, nextIdea, nextComment, nextPost, now, req, resp, before,
                   repeated, deletedIdeas>>

\* storage.update_post(post_id, updates) or storage.add_comment(post_id,
\* new_comment), and the handler's response.
PostStore(w) ==
    /\ procs.of[w].pc = "save"
    /\ LET p == procs.of[w]
           r == IF p.rq.op = "update_post"
                THEN PostsStorage_update_post(postsFile, p.rq.post_id, p.data)
                ELSE PostsStorage_add_comment(postsFile, p.rq.post_id, p.data)
       IN  /\ postsFile' = r.file
           /\ procs' = [procs EXCEPT !.of[w] =
                [@ EXCEPT !.pc = "done",
                          !.resp = IF r.raised THEN [status |-> 500, body |-> None]
                                   ELSE IF r.ret = None THEN [status |-> 404, body |-> None]
                                   ELSE [status |-> IF p.rq.op = "update_post" THEN 200 ELSE 201,
                                         body |-> r.ret]]]
    /\ UNCHANGED <<ideasFile, nextIdea, nextComment, nextPost, nextPComment, now, req,
                   resp, before, repeated, deletedIdeas>>

\* Posts are created before the workers start; the clock runs on.
PostWorkersNext ==
    \/ AllIdle /\ \E c \in PostCreates : CreatePost(c)
    \/ Tick
    \/ \E w \in Workers, rq \in PostWorkerRequests : PostArrive(w, rq)
    \/ \E w \in Workers : PostCheck(w)
    \/ \E w \in Workers : PostStore(w)

SpecPostWorkers == InitWorkers /\ [][PostWorkersNext]_vars

(* ------------------- properties of the ideas service ------------------ *)
\* The ideas document and the one the last request found.
Doc == ideasFile.doc
DocBefore == before.ideas.doc

IdeaIdsOf(d) == {d.ideas[k].id : k \in 1..Len(d.ideas)}
IdeaOf(d, id) == d.ideas[CHOOSE k \in 1..Len(d.ideas) : d.ideas[k].id = id]
\* The Like rows of a (user, idea) pair, of an idea; the comments of an idea.
LikeRows(d, u, id) ==
    {k \in 1..Len(d.likes) : d.likes[k].user_id = u /\ d.likes[k].idea_id = id}
LikeRowsOf(d, id) == {k \in 1..Len(d.likes) : d.likes[k].idea_id = id}
CommentsOf(d, id) == {k \in 1..Len(d.comments) : d.comments[k].idea_id = id}

\* C1: in every state the ideas service reaches from the empty document by
\* create, update, delete, toggle_like and add_comment requests, the likes
\* collection holds at most one Like row per (user_id, idea_id) pair.
C1_LikeUnique ==
    \A u \in Users, id \in IdeaIds : Cardinality(LikeRows(Doc, u, id)) <= 1

\* Both users like both ideas, the last Like having just been inserted.
C1_Witness ==
    /\ req.op = "toggle_like" /\ resp.status = 200
    /\ \A u \in Users, id \in {1, 2} : Cardinality(LikeRows(Doc, u, id)) = 1

\* C2: each idea's stored likes counter equals the number of Like rows whose
\* idea_id is that idea, and is never negative.
C2_LikesLockStep ==
    \A k \in 1..Len(Doc.ideas) :
        /\ Doc.ideas[k].likes = Cardinality(LikeRowsOf(Doc, Doc.ideas[k].id))
        /\ Doc.ideas[k].likes >= 0

\* An unlike has just taken one idea from two likes to one while another
\* idea has none.
C2_Witness ==
    /\ req.op = "toggle_like" /\ resp.status = 200
    /\ ~resp.body[1].userLiked
    /\ IdeaOf(DocBefore, req.idea_id).likes = 2
    /\ IdeaOf(Doc, req.idea_id).likes = 1
    /\ \E k \in 1..Len(Doc.ideas) : Doc.ideas[k].likes = 0

\* C3: after delete(id) succeeded on an existing idea the document holds no
\* idea with that id, no comment and no Like whose idea_id is id, and the
\* ideas, comments and likes of every other idea are as they were; every
\* later get(id) and every later delete(id) is answered not-found.
C3_DeleteState ==
    /\ \A id \in deletedIdeas :
         /\ id \notin IdeaIdsOf(Doc)
         /\ CommentsOf(Doc, id) = {}
         /\ LikeRowsOf(Doc, id) = {}
    /\ (req.op = "delete_idea" /\ resp.status = 204) =>
         LET Other(x) == x.idea_id # req.idea_id
             OtherIdea(x) == x.id # req.idea_id
         IN  /\ req.idea_id \in IdeaIdsOf(DocBefore)
             /\ req.idea_id \in deletedIdeas
             /\ Doc.ideas = SelectSeq(DocBefore.ideas, OtherIdea)
             /\ Doc.comments = SelectSeq(DocBefore.comments, Other)
             /\ Doc.likes = SelectSeq(DocBefore.likes, Other)
             /\ Doc.tags = DocBefore.tags

C3_DeleteLater ==
    (req'.op \in {"get_idea", "delete_idea"} /\ req'.idea_id \in deletedIdeas)
        => resp'.status = 404

C3_DeleteCascades == []C3_DeleteState /\ [][C3_DeleteLater]_vars

\* An idea with a comment and a Like has just been deleted while another
\* idea keeps its own comment and Like.
C3_Witness ==
    /\ req.op = "delete_idea" /\ resp.status = 204
    /\ CommentsOf(DocBefore, req.idea_id) # {}
    /\ LikeRowsOf(DocBefore, req.idea_id) # {}
    /\ \E id \in IdeaIdsOf(Doc) : CommentsOf(Doc, id) # {} /\ LikeRowsOf(Doc, id) # {}

\* The request being served in this step repeats the toggle_like served
\* just before it, both answered 200.
SecondToggle ==
    /\ req.op = "toggle_like" /\ resp.status = 200
    /\ req' = req /\ resp'.status = 200
    /\ before'.ideas = ideasFile

C9_PureToggle ==
    (req.op = "toggle_like" /\ resp.status = 200) =>
        LET id == req.idea_id
            had == LikeRows(DocBefore, req.user_id, id) # {}
            IsPair(x) == x.user_id = req.user_id /\ x.idea_id = id
            NotPair(x) == ~IsPair(x)
            was == IdeaOf(DocBefore, id).likes
        IN  /\ id \in IdeaIdsOf(DocBefore)
            /\ SelectSeq(Doc.likes, NotPair) = SelectSeq(DocBefore.likes, NotPair)
            /\ Cardinality(LikeRows(Doc, req.user_id, id))
                 = Cardinality(LikeRows(DocBefore, req.user_id, id))
                     + (IF had THEN -1 ELSE 1)
            /\ Len(Doc.likes) = Len(DocBefore.likes) + (IF had THEN -1 ELSE 1)
            /\ IdeaOf(Doc, id).likes = (IF had THEN Max(0, was - 1) ELSE was + 1)
            /\ resp.body[1].likes = IdeaOf(Doc, id).likes
            /\ resp.body[1].userLiked = ~had

\* An unlike by one user while the other user's Like of the same idea stays.
C9_Witness ==
    /\ req.op = "toggle_like" /\ resp.status = 200
    /\ ~resp.body[1].userLiked
    /\ LikeRows(DocBefore, req.user_id, req.idea_id) # {}
    /\ LikeRowsOf(Doc, req.idea_id) # {}
    /\ Len(Doc.likes) >= 2

(* ------------------- properties of the posts service ------------------ *)
PDoc == postsFile.doc
PDocBefore == before.posts.doc

PostIdsOf(d) == {d.posts[k].id : k \in 1..Len(d.posts)}
PostOf(d, id) == d.posts[CHOOSE k \in 1..Len(d.posts) : d.posts[k].id = id]
PCommentsOf(d, id) == {k \in 1..Len(d.post_comments) : d.post_comments[k].post_id = id}

\* C4: for every post and every sequence of updates, once published_at holds
\* a non-null value no request clears it or replaces it by a different value.
C4_PublishedAtKept ==
    \A id \in PostIdsOf(PDocBefore) \cap PostIdsOf(PDoc) :
        PostOf(PDocBefore, id).published_at # None
            => PostOf(PDoc, id).published_at = PostOf(PDocBefore, id).published_at

(* ----------------------- properties of both services ------------------ *)
MissingTarget ==
    \/ /\ req.op \in {"get_idea", "update_idea", "delete_idea", "toggle_like",
                      "add_idea_comment"}
       /\ req.idea_id \notin IdeaIdsOf(DocBefore)
    \/ /\ req.op \in {"get_post", "update_post", "delete_post", "add_post_comment"}
       /\ req.post_id \notin PostIdsOf(PDocBefore)
    \/ /\ req.op \in {"get_post", "add_post_comment"}
       /\ req.post_id \in PostIdsOf(PDocBefore)
       /\ ~PostOf(PDocBefore, req.post_id).is_published

\* C6: every request that ends in not-found (get, update, delete, toggle_like
\* or add_comment on an id that does not exist, get or add_comment on an
\* unpublished post) leaves both persisted documents exactly as they were;
\* these are the requests answered 404, every other one is answered 2xx.
C6_NotFoundKeepsDocument ==
    /\ resp.status = 404 => ideasFile = before.ideas /\ postsFile = before.posts
    /\ req.op # "none" => (resp.status = 404 <=> MissingTarget)
    /\ req.op # "none" => resp.status \in {200, 201, 204, 404}

\* A comment on an existing, unpublished post has just been refused while
\* the document holds that post.
C6_Witness ==
    /\ req.op = "add_post_comment" /\ resp.status = 404
    /\ req.post_id \in PostIdsOf(PDoc)
    /\ ~PostOf(PDoc, req.post_id).is_published

\* C10: every idea comment and every Like references an idea of the ideas
\* collection and every post comment a post of the posts collection;
\* add_comment on a missing parent is refused.
C10_NoDangling ==
    /\ \A k \in 1..Len(Doc.comments) : Doc.comments[k].idea_id \in IdeaIdsOf(Doc)
    /\ \A k \in 1..Len(Doc.likes) : Doc.likes[k].idea_id \in IdeaIdsOf(Doc)
    /\ \A k \in 1..Len(PDoc.post_comments) :
         PDoc.post_comments[k].post_id \in PostIdsOf(PDoc)
    /\ (req.op = "add_idea_comment" /\ req.idea_id \notin IdeaIdsOf(DocBefore))
         => resp.status = 404 /\ Doc.comments = DocBefore.comments
    /\ (req.op = "add_post_comment" /\ req.post_id \notin PostIdsOf(PDocBefore))
         => resp.status = 404 /\ PDoc.post_comments = PDocBefore.post_comments

\* A post that had a comment has just been deleted while another post stays.
C10_Witness ==
    /\ req.op = "delete_post" /\ resp.status = 204
    /\ PCommentsOf(PDocBefore, req.post_id) # {}
    /\ PDoc.posts # <<>>

(* ------------------- properties of concurrent workers ----------------- *)
\* Worker q loaded the document before worker p saved its change, and
\* saved after p did.
Overwrote(q, p) ==
    /\ procs.of[p].savedAt > 0
    /\ procs.of[q].savedAt > procs.of[p].savedAt
    /\ procs.of[q].loadedAt < procs.of[p].savedAt

\* The idea a request is about; the user too when it toggles a like.
Target(w) ==
    LET p == procs.of[w] IN
    IF p.rq.op = "create_idea" THEN <<p.uuid>>
    ELSE IF p.rq.op = "toggle_like" THEN <<p.rq.idea_id, p.rq.user_id>>
    ELSE <<p.rq.idea_id>>

\* The change worker p was answered for is in document d.
ChangeIn(p, d) ==
    LET w == procs.of[p] IN
    CASE w.rq.op = "create_idea" -> w.uuid \in IdeaIdsOf(d)
      [] w.rq.op = "delete_idea" -> w.rq.idea_id \notin IdeaIdsOf(d)
      [] w.rq.op = "update_idea" ->
           /\ w.rq.idea_id \in IdeaIdsOf(d)
           /\ IdeaOf(d, w.rq.idea_id).title = w.rq.idea_update.title[1]
      [] w.rq.op = "toggle_like" ->
           /\ w.rq.idea_id \in IdeaIdsOf(d)
           /\ (LikeRows(d, w.rq.user_id, w.rq.idea_id) # {}) = w.resp.body[1].userLiked
      [] w.rq.op = "add_idea_comment" ->
           \E k \in 1..Len(d.comments) : d.comments[k].id = w.uuid

\* C5: when two mutating requests interleave so that one loads the document
\* before the other saves and saves after it, the later save replaces the
\* whole document: the change of the earlier request, answered with success,
\* is not in the file, although the later request is about something else.
C5_LostUpdate ==
    \A p \in Workers, q \in Workers :
        (Overwrote(q, p) /\ Target(p)[1] # Target(q)[1])
            => /\ procs.of[p].resp.status \in {200, 201, 204}
               /\ ~ChangeIn(p, Doc)

\* An idea created with 201 is not in the file after a like toggled by the
\* other worker.
C5_Witness ==
    \E p \in Workers, q \in Workers :
        /\ Overwrote(q, p)
        /\ procs.of[p].rq.op = "create_idea"
        /\ procs.of[p].resp.status = 201
        /\ procs.of[q].rq.op = "toggle_like"
        /\ procs.of[q].resp.status = 200
        /\ procs.of[p].uuid \notin IdeaIdsOf(Doc)

\* C22: when mutating requests interleave at their load and save steps,
\* so that updates are lost, every document in the file still has at most
\* one Like row per (user, idea), a likes counter equal to the number of
\* Like rows for each idea, and no comment and no Like row of an idea that
\* is not in it.
C22_SavedDocumentsIntact ==
    /\ ideasFile.st = "ok"
    /\ \A u \in Users, id \in IdeaIds : Cardinality(LikeRows(Doc, u, id)) <= 1
    /\ \A k \in 1..Len(Doc.ideas) :
         Doc.ideas[k].likes = Cardinality(LikeRowsOf(Doc, Doc.ideas[k].id))
    /\ \A k \in 1..Len(Doc.comments) : Doc.comments[k].idea_id \in IdeaIdsOf(Doc)
    /\ \A k \in 1..Len(Doc.likes) : Doc.likes[k].idea_id \in IdeaIdsOf(Doc)

\* A delete answered 204 was overwritten by an add_comment that had loaded
\* the document before: the idea is in the file again, liked and with the
\* new comment.
C22_Witness ==
    \E p \in Workers, q \in Workers :
        /\ Overwrote(q, p)
        /\ procs.of[p].rq.op = "delete_idea" /\ procs.of[p].resp.status = 204
        /\ procs.of[q].rq.op = "add_idea_comment" /\ procs.of[q].resp.status = 201
        /\ procs.of[q].rq.idea_id = procs.of[p].rq.idea_id
        /\ procs.of[p].rq.idea_id \in IdeaIdsOf(Doc)
        /\ LikeRowsOf(Doc, procs.of[p].rq.idea_id) # {}
        /\ CommentsOf(Doc, procs.of[p].rq.idea_id) # {}

(* ------------------- properties of a damaged data file ---------------- *)
IdeaOps == {"get_idea", "create_idea", "update_idea", "delete_idea",
            "toggle_like", "add_idea_comment"}
PostOps == {"get_post", "create_post", "update_post", "delete_post",
            "add_post_comment"}

\* C7 as the specification states it: a request that finds the data file
\* missing or undecodable is never answered with an error of load; the file
\* is rewritten as the empty document and the request is served as on an
\* empty store (a create adds the only entry, every other request finds
\* nothing); a file that decodes is left unchanged by a read.
C7_LoadNeverRaises ==
    /\ (req.op \in IdeaOps /\ before.ideas.st # "ok") =>
          /\ resp.status # 500
          /\ ideasFile.st = "ok"
          /\ IF req.op = "create_idea"
             THEN /\ resp.status = 201
                  /\ Len(ideasFile.doc.ideas) = 1
                  /\ ideasFile.doc.likes = <<>> /\ ideasFile.doc.comments = <<>>
             ELSE resp.status = 404 /\ ideasFile = OkFile(EmptyIdeasDoc)
    /\ (req.op \in PostOps /\ before.posts.st # "ok") =>
          /\ resp.status # 500
          /\ postsFile.st = "ok"
          /\ IF req.op = "create_post"
             THEN /\ resp.status = 201
                  /\ Len(postsFile.doc.posts) = 1
                  /\ postsFile.doc.post_comments = <<>>
             ELSE resp.status = 404 /\ postsFile = OkFile(EmptyPostsDoc)
    /\ (req.op = "get_idea" /\ before.ideas.st = "ok") => ideasFile = before.ideas
    /\ (req.op = "get_post" /\ before.posts.st = "ok") => postsFile = before.posts

(* ------------------- reading and commenting posts --------------------- *)
\* C11: fetching a single post returns it only when its stored is_published
\* is true; for a post that exists but is unpublished the answer is the
\* not-found answer a missing id gets, and the file is left as it was.
C11_GetPostPublishedOnly ==
    req.op = "get_post" =>
        /\ postsFile = before.posts
        /\ IF /\ req.post_id \in PostIdsOf(PDocBefore)
              /\ PostOf(PDocBefore, req.post_id).is_published
           THEN /\ resp.status = 200
                /\ resp.body[1].id = req.post_id
                /\ resp.body[1].is_published
                /\ resp.body[1].title = PostOf(PDocBefore, req.post_id).title
                /\ resp.body[1].content = PostOf(PDocBefore, req.post_id).content
           ELSE resp = [status |-> 404, body |-> None]

\* A post that was published and then unpublished by an update has just
\* been asked for and not been found.
C11_Witness ==
    /\ req.op = "get_post" /\ resp.status = 404
    /\ req.post_id \in PostIdsOf(PDoc)
    /\ ~PostOf(PDoc, req.post_id).is_published
    /\ PostOf(PDoc, req.post_id).published_at # None

\* C12: add_comment on a post whose is_published is false is answered
\* not-found and appends nothing; a post comment is only ever appended by an
\* add_comment on a post that is published at that moment.
C12_CommentsOnPublishedOnly ==
    /\ (/\ req.op = "add_post_comment"
        /\ req.post_id \in PostIdsOf(PDocBefore)
        /\ ~PostOf(PDocBefore, req.post_id).is_published)
          => resp.status = 404 /\ postsFile = before.posts
    /\ (req.op \in PostOps /\ resp.status # 0
        /\ \E k \in 1..Len(PDoc.post_comments) :
              \A j \in 1..Len(PDocBefore.post_comments) :
                  PDocBefore.post_comments[j].id # PDoc.post_comments[k].id)
          => /\ req.op = "add_post_comment" /\ resp.status = 201
             /\ req.post_id \in PostIdsOf(PDocBefore)
             /\ PostOf(PDocBefore, req.post_id).is_published
             /\ PDoc.post_comments = Append(PDocBefore.post_comments, resp.body[1])
             /\ resp.body[1].post_id = req.post_id

\* A comment has just been refused on an unpublished post that still holds
\* a comment from the time it was published.
C12_Witness ==
    /\ req.op = "add_post_comment" /\ resp.status = 404
    /\ req.post_id \in PostIdsOf(PDoc)
    /\ ~PostOf(PDoc, req.post_id).is_published
    /\ PCommentsOf(PDoc, req.post_id) # {}

(* ------------------------- listing the posts -------------------------- *)
\* C13: list posts with published_only = true returns only posts whose
\* stored is_published is true, whatever search, tag, skip and limit are; a
\* post that was never published (published_at is null) is never returned,
\* even when the search term matches it.
C13_ListPublishedOnly ==
    (req.op = "get_posts" /\ req.q.published_only) =>
        /\ resp.status = 200
        /\ postsFile = before.posts
        /\ \A k \in 1..Len(resp.body[1]) :
             /\ resp.body[1][k].id \in PostIdsOf(PDocBefore)
             /\ PostOf(PDocBefore, resp.body[1][k].id).is_published
             /\ resp.body[1][k].is_published
             /\ resp.body[1][k].published_at # None

\* A search whose term matches the title of a never published post has
\* just returned the published post of the document and not that one.
C13_Witness ==
    /\ req.op = "get_posts" /\ req.q.published_only
    /\ req.q.search = Some(<<"T">>) /\ req.q.tag = None /\ req.q.skip = 0
    /\ Len(resp.body[1]) = 1
    /\ \E k \in 1..Len(PDoc.posts) :
         /\ ~PDoc.posts[k].is_published
         /\ PDoc.posts[k].published_at = None
         /\ Contains(Lower(PDoc.posts[k].title), Lower(req.q.search[1]))

\* The key the posts are to be ordered by: published_at, and created_at for
\* a post that has none.
OrderKey(x) ==
    IF x.published_at # None THEN FromIsoFormat(x.published_at[1])
    ELSE FromIsoFormat(x.created_at)

\* C18: list posts with published_only = false completes without error in
\* every reachable state; it returns published and unpublished posts
\* together, ordered by published_at descending with created_at as the key
\* of a post that has no published_at.
C18_ListAllCompletes ==
    (req.op = "get_posts" /\ ~req.q.published_only) =>
        /\ resp.status = 200
        /\ \A k \in 1..(Len(resp.body[1]) - 1) :
             OrderKey(resp.body[1][k]) >= OrderKey(resp.body[1][k + 1])
        /\ (req.q.search = None /\ req.q.tag = None /\ req.q.skip = 0
               /\ req.q.limit >= Len(PDocBefore.posts))
             => {resp.body[1][k].id : k \in 1..Len(resp.body[1])} = PostIdsOf(PDocBefore)

(* -------------------------- editing a post ---------------------------- *)
\* The update just served asked for is_published = true on a post that was
\* stored as published.
RepublishServed ==
    /\ req.op = "update_post"
    /\ req.post_update.is_published = Some(TRUE)
    /\ req.post_id \in PostIdsOf(PDocBefore)
    /\ PostOf(PDocBefore, req.post_id).is_published

\* What the update leaves alone and what it writes, apart from the excerpt.
RepublishFrame ==
    LET u == req.post_update
        old == PostOf(PDocBefore, req.post_id)
        new == PostOf(PDoc, req.post_id)
    IN  /\ resp.status = 200
        /\ PostIdsOf(PDoc) = PostIdsOf(PDocBefore)
        /\ new.published_at = old.published_at
        /\ new.published_at # None
        /\ FromIsoFormat(new.updated_at) >= FromIsoFormat(old.updated_at)
        /\ new.updated_at = resp.body[1].updated_at
        /\ new.is_published
        /\ new.id = old.id /\ new.author = old.author /\ new.created_at = old.created_at
        /\ new.title = (IF u.title # None THEN u.title[1] ELSE old.title)
        /\ new.content = (IF u.content # None THEN u.content[1] ELSE old.content)
        /\ new.tags = (IF u.tags # None THEN u.tags[1] ELSE old.tags)
        /\ \A i \in PostIdsOf(PDocBefore) \ {req.post_id} :
             PostOf(PDoc, i) = PostOf(PDocBefore, i)
        /\ PDoc.post_comments = PDocBefore.post_comments
        /\ resp.body[1].published_at = old.published_at

C15_UpdateExactly ==
    (req.op = "update_idea" /\ req.idea_id \in IdeaIdsOf(DocBefore)) =>
        LET u == req.idea_update
            old == IdeaOf(DocBefore, req.idea_id)
            new == IdeaOf(Doc, req.idea_id)
        IN  /\ resp.status = 200
            /\ new.title = (IF u.title # None THEN u.title[1] ELSE old.title)
            /\ new.description =
                 (IF u.description # None THEN u.description[1] ELSE old.description)
            /\ new.tags = (IF u.tags # None THEN u.tags[1] ELSE old.tags)
            /\ DOMAIN new = DOMAIN old
            /\ \A k \in DOMAIN old \ {"title", "description", "tags"} : new[k] = old[k]
            /\ Len(Doc.ideas) = Len(DocBefore.ideas)
            /\ \A k \in 1..Len(Doc.ideas) :
                 DocBefore.ideas[k].id # req.idea_id => Doc.ideas[k] = DocBefore.ideas[k]
            /\ Doc.comments = DocBefore.comments
            /\ Doc.likes = DocBefore.likes
            /\ resp.body[1].title = new.title
            /\ resp.body[1].description = new.description
            /\ resp.body[1].tags = new.tags
            /\ resp.body[1].likes = old.likes

\* An idea with a like and a comment, next to another idea, was sent an
\* empty title and an empty tag list and no description: title and tags are
\* now empty, the description is the one it had.
C15_Witness ==
    /\ req.op = "update_idea" /\ resp.status = 200
    /\ req.idea_update = [title |-> Some(<<>>), description |-> None, tags |-> Some(<<>>)]
    /\ Len(DocBefore.ideas) = 2
    /\ IdeaOf(DocBefore, req.idea_id).title # <<>>
    /\ IdeaOf(DocBefore, req.idea_id).tags # <<>>
    /\ IdeaOf(DocBefore, req.idea_id).likes > 0
    /\ CommentsOf(DocBefore, req.idea_id) # {}
    /\ IdeaOf(Doc, req.idea_id).title = <<>>
    /\ IdeaOf(Doc, req.idea_id).tags = <<>>
    /\ IdeaOf(Doc, req.idea_id).description = IdeaOf(DocBefore, req.idea_id).description

(* -------------------------- creating an idea -------------------------- *)
\* C16: every idea creation returns and persists an idea with likes = 0,
\* userLiked = false and no comments, under an id that no idea of the
\* document has, so that the ids of the ideas are pairwise distinct in
\* every state; the ideas, comments and likes that were there are unchanged.
C16_CreateFresh ==
    /\ \A j, k \in 1..Len(Doc.ideas) : Doc.ideas[j].id = Doc.ideas[k].id => j = k
    /\ req.op = "create_idea" =>
         /\ resp.status = 201
         /\ resp.body[1].likes = 0
         /\ resp.body[1].userLiked = FALSE
         /\ resp.body[1].comments = 0
         /\ resp.body[1].id \notin IdeaIdsOf(DocBefore)
         /\ Len(Doc.ideas) = Len(DocBefore.ideas) + 1
         /\ SubSeq(Doc.ideas, 1, Len(DocBefore.ideas)) = DocBefore.ideas
         /\ LET stored == Doc.ideas[Len(Doc.ideas)] IN
              /\ stored.id = resp.body[1].id
              /\ stored.likes = 0
              /\ stored.userLiked = FALSE
              /\ stored.title = req.idea.title
              /\ CommentsOf(Doc, stored.id) = {}
              /\ LikeRowsOf(Doc, stored.id) = {}
         /\ Doc.comments = DocBefore.comments
         /\ Doc.likes = DocBefore.likes

\* An idea was created next to an idea that has a like and a comment.
C16_Witness ==
    /\ req.op = "create_idea" /\ resp.status = 201
    /\ Len(DocBefore.ideas) = 1
    /\ DocBefore.ideas[1].likes > 0
    /\ DocBefore.likes # <<>>
    /\ DocBefore.comments # <<>>
    /\ Len(Doc.ideas) = 2

(* ---------------------------- the start-up ---------------------------- *)
\* C17: the start-up only makes sure that the two data files exist: a data
\* file that exists and holds ideas or posts has the same content after the
\* start-up, and an idea persisted before a restart is still returned after
\* it.
C17_StartupKeeps ==
    /\ req.op = "startup" =>
         /\ (before.ideas.st = "ok" => ideasFile = before.ideas)
         /\ (before.posts.st = "ok" => postsFile = before.posts)
    /\ (req.op = "get_idea" /\ req.idea_id <= nextIdea /\ req.idea_id \notin deletedIdeas)
         => resp.status = 200

(* ---------------------------- the excerpts ---------------------------- *)
\* The excerpt e is the one the content gives: the content itself when it
\* has at most 150 characters, else its first 150 characters and "...".
DerivedFrom(e, content) ==
    /\ e # None
    /\ Len(content) <= ExcerptLen => e[1] = content
    /\ Len(content) > ExcerptLen =>
         /\ Len(e[1]) = ExcerptLen + 3
         /\ \A k \in 1..ExcerptLen : e[1][k] = content[k]
         /\ \A k \in (ExcerptLen + 1)..(ExcerptLen + 3) : e[1][k] = "."

\* What an update that sends content and no excerpt stores.
UpdateDerives ==
    (req.op = "update_post" /\ resp.status = 200
        /\ req.post_update.content # None /\ req.post_update.excerpt = None) =>
        /\ DerivedFrom(PostOf(PDoc, req.post_id).excerpt, req.post_update.content[1])
        /\ resp.body[1].excerpt = PostOf(PDoc, req.post_id).excerpt

\* C19 (amended): a create with a content that is not empty and no excerpt,
\* and an update with a content and no excerpt, store the content as the
\* excerpt when it has at most 150 characters, and otherwise its first 150
\* characters followed by "..."; a create with the empty content and no
\* excerpt stores no excerpt.
C19_ExcerptDerived ==
    /\ UpdateDerives
    /\ (req.op = "create_post" /\ resp.status = 201 /\ req.post_create.excerpt = None) =>
         LET stored == PostOf(PDoc, resp.body[1].id) IN
         /\ req.post_create.content # <<>> =>
              DerivedFrom(stored.excerpt, req.post_create.content)
         /\ req.post_create.content = <<>> => stored.excerpt = None
         /\ resp.body[1].excerpt = stored.excerpt

\* C19 as stated: the empty content too is stored as the excerpt by a create.
C19_AsStated ==
    /\ UpdateDerives
    /\ (req.op = "create_post" /\ resp.status = 201 /\ req.post_create.excerpt = None) =>
         DerivedFrom(PostOf(PDoc, resp.body[1].id).excerpt, req.post_create.content)

\* A post created with a content of 150 characters, stored as its own
\* excerpt, was sent a content of 151 characters and no excerpt: the
\* excerpt is now 153 characters long and ends with "...".
C19_Witness ==
    /\ req.op = "update_post" /\ resp.status = 200
    /\ req.post_update.excerpt = None
    /\ req.post_update.content = Some(LongText(ExcerptLen + 1))
    /\ PostOf(PDocBefore, req.post_id).content = LongText(ExcerptLen)
    /\ PostOf(PDocBefore, req.post_id).excerpt = Some(LongText(ExcerptLen))
    /\ Len(PostOf(PDoc, req.post_id).excerpt[1]) = ExcerptLen + 3
    /\ PostOf(PDoc, req.post_id).excerpt[1][ExcerptLen + 3] = "."
    /\ PostOf(PDoc, req.post_id).content[ExcerptLen + 1] = "y"

(* ---------------------------- the idea tags --------------------------- *)
\* The tags that occur in an idea of the document.
TagsIn(d) == UNION {{d.ideas[k].tags[j] : j \in 1..Len(d.ideas[k].tags)} : k \in 1..Len(d.ideas)}

\* C20: all_tags returns exactly the tags that occur in at least one idea
\* of the document, each once, in ascending lexicographic order; a tag that
\* only a deleted idea had, or that an update removed, is not returned.
C20_AllTags ==
    req.op = "get_all_tags" =>
        /\ resp.status = 200
        /\ ideasFile = before.ideas
        /\ {resp.body[1][k] : k \in 1..Len(resp.body[1])} = TagsIn(Doc)
        /\ \A j, k \in 1..Len(resp.body[1]) :
             j < k => StrLess(resp.body[1][j], resp.body[1][k])

\* Two ideas were created with the tag "B"; one was deleted and the other
\* one updated to the tags "ab", "a", "ab": the tags are "a", "ab".
C20_Witness ==
    /\ req.op = "get_all_tags" /\ resp.status = 200
    /\ nextIdea = 2 /\ Len(Doc.ideas) = 1 /\ deletedIdeas # {}
    /\ Doc.ideas[1].tags = << <<"a", "b">>, <<"a">>, <<"a", "b">> >>
    /\ resp.body[1] = << <<"a">>, <<"a", "b">> >>

(* -------------------------- listing the ideas ------------------------- *)
\* The idea passes the search and tag filters of the query.
Passes(idea, q) ==
    /\ q.search # None =>
         \/ Contains(Lower(idea.title), Lower(q.search[1]))
         \/ Contains(Lower(idea.description), Lower(q.search[1]))
    /\ q.tag # None => \E k \in 1..Len(idea.tags) : idea.tags[k] = q.tag[1]

\* The pages skip = 0, limit, 2*limit, ... of a query read one after the
\* other in the document d.
PagesOf(d, q) ==
    LET Page(k) == Ideas_get_ideas(d, k * q.limit, q.limit, q.search, q.tag, q.sort, None).ret
        Cat[k \in 0..Len(d.ideas)] == IF k = 0 THEN Page(0) ELSE Cat[k - 1] \o Page(k)
    IN  Cat[Len(d.ideas)]

\* C21: list ideas returns the slice [skip, skip+limit) of the ideas that
\* pass search and tag, sorted: never more than limit ideas, in
\* non-increasing likes order with sort=popular; read page after page in
\* one state, every idea that passes the filters is in exactly one page.
C21_ListSlices ==
    /\ req.op = "get_ideas" =>
         LET q == req.q
             body == resp.body[1]
             all == PagesOf(Doc, [q EXCEPT !.limit = 1])
         IN  /\ resp.status = 200
             /\ Len(body) <= q.limit
             /\ \A k \in 1..Len(body) :
                  /\ body[k].id \in IdeaIdsOf(Doc)
                  /\ Passes(IdeaOf(Doc, body[k].id), q)
             /\ q.sort = "popular" =>
                  \A k \in 1..(Len(body) - 1) : body[k].likes >= body[k + 1].likes
             /\ \A k \in 1..Len(body) : body[k] = all[q.skip + k]
             /\ Len(body) = Max(0, Min(q.limit, Len(all) - q.skip))
    /\ \A q \in IdeaQueries :
         LET pages == PagesOf(Doc, q) IN
         /\ \A i \in IdeaIdsOf(Doc) :
              Cardinality({k \in 1..Len(pages) : pages[k].id = i})
                  = (IF Passes(IdeaOf(Doc, i), q) THEN 1 ELSE 0)
         /\ q.sort = "popular" =>
              \A k \in 1..(Len(pages) - 1) : pages[k].likes >= pages[k + 1].likes

\* The second page of one idea of the ideas by likes was read while the
\* idea stored first has fewer likes than the idea stored second: the page
\* holds the idea stored first.
C21_Witness ==
    /\ req.op = "get_ideas" /\ resp.status = 200
    /\ req.q.sort = "popular" /\ req.q.skip = 1 /\ req.q.limit = 1
    /\ req.q.search = None /\ req.q.tag = None
    /\ Len(Doc.ideas) = 2
    /\ Doc.ideas[1].likes < Doc.ideas[2].likes
    /\ Len(resp.body[1]) = 1
    /\ resp.body[1][1].id = Doc.ideas[1].id

(* ------------- properties of workers on the posts data file ----------- *)
\* C23: also when another request's update comes between the two loads of
\* a post handler, no step appends a comment to a post that is unpublished
\* in the document it saves, and no step replaces the published_at of a
\* post that is published.
C23_RaceStep ==
    \A id \in PostIdsOf(PDoc) \cap PostIdsOf(PDoc') :
        /\ PCommentsOf(PDoc', id) # PCommentsOf(PDoc, id) => PostOf(PDoc', id).is_published
        /\ PostOf(PDoc, id).is_published =>
             PostOf(PDoc', id).published_at = PostOf(PDoc, id).published_at

C23_RaceSafe == [][C23_RaceStep]_vars

(* ------------------- is_published and published_at -------------------- *)
\* C24: after any sequence of posts requests a post whose is_published is
\* true has a non-null published_at, and a post that was never published
\* (created with is_published = false, or still without published_at before
\* the last request, and not published by it) has a null published_at.
C24_PublishedStamp ==
    \A id \in PostIdsOf(PDoc) :
        LET post == PostOf(PDoc, id)
            unstamped == \/ id \notin PostIdsOf(PDocBefore)
                         \/ PostOf(PDocBefore, id).published_at = None
        IN  /\ post.is_published => post.published_at # None
            /\ (unstamped /\ ~post.is_published) => post.published_at = None

\* One post was created unpublished and published by an update, next to a
\* post that was created unpublished and has stayed so.
C24_Witness ==
    /\ req.op = "update_post" /\ resp.status = 200
    /\ req.post_id \in PostIdsOf(PDocBefore)
    /\ PostOf(PDocBefore, req.post_id).published_at = None
    /\ PostOf(PDoc, req.post_id).is_published
    /\ PostOf(PDoc, req.post_id).published_at # None
    /\ \E id \in PostIdsOf(PDoc) :
          ~PostOf(PDoc, id).is_published /\ PostOf(PDoc, id).published_at = None

(* ------------------- managing an unpublished post --------------------- *)
Publish == [title |-> None, content |-> None, excerpt |-> None, tags |-> None,
            is_published |-> Some(TRUE)]

\* The post is what get_post answers and is among what get_posts answers
\* with published_only = true, on the data file f.
Served(f, id) ==
    LET g == PostsRouter_get_post(f, id)
        l == PostsRouter_get_posts(f, 0, 100, None, None, TRUE)
    IN  /\ g.status = 200 /\ g.body[1].id = id
        /\ l.status = 200
        /\ \E k \in 1..Len(l.body[1]) : l.body[1][k].id = id

\* C25: update and delete on an existing unpublished post succeed, and from
\* every reachable state one update with is_published = true brings any
\* existing post to a state where get_post returns it and get_posts with
\* published_only = true includes it.
C25_ManageableById ==
    /\ (/\ req.op \in {"update_post", "delete_post"}
        /\ req.post_id \in PostIdsOf(PDocBefore)
        /\ ~PostOf(PDocBefore, req.post_id).is_published)
          => /\ req.op = "update_post" =>
                  /\ resp.status = 200
                  /\ PostOf(PDoc, req.post_id).is_published
                        = req.post_update.is_published[1]
             /\ req.op = "delete_post" =>
                  /\ resp.status = 204
                  /\ req.post_id \notin PostIdsOf(PDoc)
    /\ \A id \in PostIdsOf(PDoc) :
          LET u == PostsRouter_update_post(postsFile, id, Publish, now)
          IN  u.status = 200 /\ Served(u.file, id)

\* An unpublished post, which get_post does not answer, has just been
\* published by an update and is served now; another unpublished post
\* exists that can be published the same way.
C25_Witness ==
    /\ req.op = "update_post" /\ resp.status = 200
    /\ req.post_update = Publish
    /\ req.post_id \in PostIdsOf(PDocBefore)
    /\ ~PostOf(PDocBefore, req.post_id).is_published
    /\ PostsRouter_get_post(before.posts, req.post_id).status = 404
    /\ Served(postsFile, req.post_id)
    /\ \E id \in PostIdsOf(PDoc) :
          /\ ~PostOf(PDoc, id).is_published
          /\ PostsRouter_get_post(postsFile, id).status = 404

(* ---------------------- what a request leaves alone ------------------- *)
IdeaReads == {"get_idea", "get_ideas", "get_all_tags"}
PostReads == {"get_post", "get_posts", "get_all_post_tags"}

\* C26: on well-formed data files a request that reads (list, get or
\* all tags of ideas or of posts) leaves both data files as they were, a
\* request to the ideas service leaves the posts data file as it was, and a
\* request to the posts service leaves the ideas data file as it was.
C26_ReadsAndOtherService ==
    /\ req.op \in IdeaReads \cup PostReads =>
          ideasFile = before.ideas /\ postsFile = before.posts
    /\ req.op \in IdeaOps \cup IdeaReads => postsFile = before.posts
    /\ req.op \in PostOps \cup PostReads => ideasFile = before.ideas

\* The tags of the posts were just read, with a post that carries a tag and
\* an idea that has a like in the data files.
C26_Witness ==
    /\ req.op = "get_all_post_tags" /\ resp.status = 200
    /\ resp.body[1] # <<>>
    /\ Len(PDoc.posts) > 0
    /\ \E i \in IdeaIdsOf(Doc) : IdeaOf(Doc, i).likes > 0
    /\ postsFile = before.posts /\ ideasFile = before.ideas

(* ---------------------- what toggle_like leaves alone ----------------- *)
\* C27: toggle_like(id, user) changes the Like row of (user, id) and the
\* likes counter of the idea id and nothing else: the other Like rows, the
\* other ideas, the other fields of the idea and all comments are as before.
C27_ToggleFrame ==
    (req.op = "toggle_like" /\ resp.status = 200) =>
        LET id == req.idea_id
            NotPair(x) == ~(x.user_id = req.user_id /\ x.idea_id = id)
        IN  /\ DOMAIN Doc = DOMAIN DocBefore
            /\ Doc.comments = DocBefore.comments
            /\ SelectSeq(Doc.likes, NotPair) = SelectSeq(DocBefore.likes, NotPair)
            /\ Len(Doc.ideas) = Len(DocBefore.ideas)
            /\ \A k \in 1..Len(Doc.ideas) :
                  IF DocBefore.ideas[k].id = id
                  THEN /\ [Doc.ideas[k] EXCEPT !.likes = DocBefore.ideas[k].likes]
                             = DocBefore.ideas[k]
                       /\ Doc.ideas[k].likes # DocBefore.ideas[k].likes
                  ELSE Doc.ideas[k] = DocBefore.ideas[k]
            /\ LikeRows(Doc, req.user_id, id) # {}
                  <=> LikeRows(DocBefore, req.user_id, id) = {}

\* A like was toggled on an idea that has a comment and a Like of another
\* user, next to another idea that has a Like and a comment of its own.
C27_Witness ==
    /\ req.op = "toggle_like" /\ resp.status = 200
    /\ \E k \in 1..Len(Doc.likes) :
          Doc.likes[k].idea_id = req.idea_id /\ Doc.likes[k].user_id # req.user_id
    /\ CommentsOf(Doc, req.idea_id) # {}
    /\ \E other \in IdeaIdsOf(Doc) :
          /\ other # req.idea_id
          /\ LikeRowsOf(Doc, other) # {}
          /\ CommentsOf(Doc, other) # {}

====
